---- MODULE Spec2Model ----
(***************************************************************************)
(* A model of the JavaDoc sidebar extension:                               *)
(*   - the symbol resolver (LRU cache + in-flight request map),            *)
(*   - the cursor locator (binary search over the method list),            *)
(*   - the sidebar provider (refresh / clearView / updateHighlight) and    *)
(*     the part of JavaDocParser.parse that builds the sorted lists.       *)
(*                                                                         *)
(* Strings are sequences of one-character strings, so that startsWith and  *)
(* template-literal concatenation are computed as the code computes them.  *)
(* An optional value (T | undefined, T | null) is <<>> or <<v>>.           *)
(***************************************************************************)
EXTENDS Integers, Sequences, FiniteSets, TLC

VARIABLES
    \* ---- SymbolResolver (module-level state) and its environment ----
    openVersion,        \* vscode.workspace.textDocuments: uri -> version, <<>> when not open
    symbolCache,        \* Map<string, CachedSymbols> in insertion order
    inFlightRequests,   \* Map<string, Promise<DocumentSymbol[]>> in insertion order
    requests,           \* the promises created by resolveSymbols that have not settled yet
    lastOp,             \* the operation that ran last and what it handed back
    useOrder,           \* history: cache keys, least recently used (hit or store) first
    \* ---- cursor locator (pure function under test) ----
    methods,            \* the list handed to binarySearchMethod
    cursorLine,         \* the query line
    located,            \* <<>> before the call, then <<i>>: the index (from 0) in
                        \* `methods` of the element returned, -1 for null
    \* ---- SidebarProvider ----
    activeEditor,       \* vscode.window.activeTextEditor: <<>> or <<document>>
    view,               \* SidebarProvider.view is set (resolveWebviewView ran)
    currentMethods,     \* SidebarProvider.currentMethods
    lastHighlightId,    \* SidebarProvider.lastHighlightId: <<>> (null) or <<id>>
    lastViewMessage,    \* the last updateView/clearView message the webview received
    parses,             \* refresh() calls suspended at `await this.parser.parse(doc)`
    latest,             \* history: the most recent refresh/clearView request
    shown,              \* history: the document whose methods currentMethods holds
    parsedSymbols,      \* history: the symbols the last completed parse worked on
    highlightCall,      \* history: <<>>, or <<c>> when updateHighlight ran last: the line
                        \* it processed, lastHighlightId before it and the id it posted
    textInput,          \* the arguments of a call of one of the text functions
    textOutput          \* <<>> before the call, then <<what it returned>>

resolverVars == <<openVersion, symbolCache, inFlightRequests, requests, lastOp, useOrder>>
locatorVars == <<methods, cursorLine, located>>
sidebarVars == <<activeEditor, view, currentMethods, lastHighlightId, lastViewMessage,
                 parses, latest, shown, parsedSymbols, highlightCall>>
textVars == <<textInput, textOutput>>
vars == <<resolverVars, locatorVars, sidebarVars, textVars>>

----------------------------------------------------------------------------
(* Bounds of the model *)

MaxVersion == 2      \* document versions run 1..MaxVersion
MaxPending == 2      \* external lookups pending at the same time
MaxLine == 4         \* source lines run 0..MaxLine
MaxMethods == 3      \* length of a method list
MaxParses == 2       \* refresh() calls suspended at the same time
MaxChildren == 2     \* members the symbol provider reports for the class
MaxEnumLine == 5     \* characters of an enum constant's line
MaxParams == 2       \* parameters of a signature

(* MAX_CACHE_ENTRIES is 128 in the source; the model runs the same code    *)
(* with a capacity that three documents can fill.                          *)
MAX_CACHE_ENTRIES == 2

----------------------------------------------------------------------------
(* Strings *)

None == <<>>
Some(v) == <<v>>

Str_a == <<"a">>
Str_b == <<"b">>
Str_a_f == <<"a", "#", "f">>
Hash == <<"#">>
Untracked == <<"u", "n", "t", "r", "a", "c", "k", "e", "d">>

\* The documents of the model: uri.toString() of each.  "a#f" is a uri with
\* a fragment whose text extends "a#".
Uris == {Str_a, Str_b, Str_a_f}

\* The environment of the model opens, edits and closes document "a"; the
\* other documents are open at version 1 throughout.
EditedUris == {Str_a}

Digit(n) == <<"0", "1", "2", "3", "4", "5", "6", "7", "8", "9">>[n + 1]

RECURSIVE NumberToString(_)
NumberToString(n) ==
    IF n < 10 THEN <<Digit(n)>>
    ELSE NumberToString(n \div 10) \o <<Digit(n % 10)>>

\* String.prototype.startsWith
StartsWith(s, prefix) ==
    /\ Len(prefix) <= Len(s)
    /\ SubSeq(s, 1, Len(prefix)) = prefix

----------------------------------------------------------------------------
(* JavaScript Map, as the sequence of its entries in insertion order *)

MapKeys(m) == {m[i].key : i \in 1..Len(m)}
MapHas(m, k) == k \in MapKeys(m)
MapGet(m, k) == (CHOOSE i \in 1..Len(m) : m[i].key = k)
MapValue(m, k) == m[MapGet(m, k)].value
MapDeleteNothing(m, k) == m

MapDelete(m, k) == SelectSeq(m, LAMBDA e : e.key # k)
\* Map.prototype.set: an existing key keeps its place, a new key goes last.
MapSet(m, k, v) ==
    IF MapHas(m, k)
    THEN [i \in 1..Len(m) |-> IF m[i].key = k THEN [key |-> k, value |-> v] ELSE m[i]]
    ELSE Append(m, [key |-> k, value |-> v])

----------------------------------------------------------------------------
(* What the document symbol provider can answer *)

\* An element as the duck-typing tests see it.
DocumentSymbolItem(name) ==
    [name |-> name, nameIsString |-> TRUE, kindIsNumber |-> TRUE, childrenIsArray |-> TRUE,
     rangeIsRange |-> TRUE, selectionRangeIsRange |-> TRUE, locationIsLocation |-> FALSE]
SymbolInformationItem(name) ==
    [name |-> name, nameIsString |-> TRUE, kindIsNumber |-> TRUE, childrenIsArray |-> FALSE,
     rangeIsRange |-> FALSE, selectionRangeIsRange |-> FALSE, locationIsLocation |-> TRUE]
ForeignItem(name) ==
    [name |-> name, nameIsString |-> TRUE, kindIsNumber |-> FALSE, childrenIsArray |-> FALSE,
     rangeIsRange |-> FALSE, selectionRangeIsRange |-> FALSE, locationIsLocation |-> FALSE]

Rejected == [rejected |-> TRUE, isArray |-> FALSE, items |-> <<>>]
NotAnArray == [rejected |-> FALSE, isArray |-> FALSE, items |-> <<>>]
ArrayOf(items) == [rejected |-> FALSE, isArray |-> TRUE, items |-> items]

ProviderAnswers ==
    { Rejected,
      NotAnArray,
      ArrayOf(<<>>),
      ArrayOf(<<DocumentSymbolItem("Foo")>>),
      ArrayOf(<<SymbolInformationItem("Foo")>>),
      ArrayOf(<<ForeignItem("zap")>>) }

isDocumentSymbol(value) ==
    /\ value.kindIsNumber
    /\ value.childrenIsArray
    /\ value.rangeIsRange
    /\ value.selectionRangeIsRange

isSymbolInformation(value) ==
    /\ value.nameIsString
    /\ value.kindIsNumber
    /\ value.locationIsLocation

\* new vscode.DocumentSymbol(name, containerName ?? "", kind, range, range):
\* a hierarchical node without children, both ranges the reported location.
convertSymbolInformationToDocumentSymbols(symbols) ==
    [i \in 1..Len(symbols) |->
        [symbols[i] EXCEPT !.childrenIsArray = TRUE, !.rangeIsRange = TRUE,
                           !.selectionRangeIsRange = TRUE, !.locationIsLocation = FALSE]]

normalizeKeepsAnyArray(result) ==
    IF ~result.isArray THEN <<>> ELSE result.items

normalizeDocumentSymbols(result) ==
    IF ~result.isArray \/ Len(result.items) = 0 THEN <<>>
    ELSE IF isDocumentSymbol(result.items[1]) THEN result.items
    ELSE IF isSymbolInformation(result.items[1])
         THEN convertSymbolInformationToDocumentSymbols(result.items)
    ELSE <<>>

\* try { raw = await executeCommand(...); return normalize(raw) } catch { return [] }
fetchAndNormalizeSymbols(answer) ==
    IF answer.rejected THEN <<>> ELSE normalizeDocumentSymbols(answer)

\* The answers that are not a non-empty array whose first element has the
\* hierarchical or the flat shape.
Unrecognized(answer) ==
    \/ answer.rejected
    \/ ~answer.isArray
    \/ Len(answer.items) = 0
    \/ (~isDocumentSymbol(answer.items[1]) /\ ~isSymbolInformation(answer.items[1]))

----------------------------------------------------------------------------
(* SymbolResolver: the cache and the in-flight map *)

CacheMiss(cache) == [found |-> FALSE, symbols |-> <<>>, cache |-> cache]

getCachedSymbolsNonEmpty(cache, cacheKey, version) ==
    IF \/ ~MapHas(cache, cacheKey)
       \/ MapValue(cache, cacheKey).version # version
       \/ MapValue(cache, cacheKey).symbols = <<>>
    THEN CacheMiss(cache)
    ELSE LET cached == MapValue(cache, cacheKey)
         IN  [found |-> TRUE, symbols |-> cached.symbols,
              cache |-> MapSet(MapDelete(cache, cacheKey), cacheKey, cached)]

getCachedSymbolsAnyVersion(cache, cacheKey, version) ==
    IF ~MapHas(cache, cacheKey)
    THEN CacheMiss(cache)
    ELSE LET cached == MapValue(cache, cacheKey)
         IN  [found |-> TRUE, symbols |-> cached.symbols,
              cache |-> MapSet(MapDelete(cache, cacheKey), cacheKey, cached)]

\* Returns what the function returns (found, symbols) and the map it leaves.
getCachedSymbols(cache, cacheKey, version) ==
    IF ~MapHas(cache, cacheKey) \/ MapValue(cache, cacheKey).version # version
    THEN CacheMiss(cache)
    ELSE LET cached == MapValue(cache, cacheKey)
         IN  \* Promote hit to the end of insertion order.
             [found |-> TRUE, symbols |-> cached.symbols,
              cache |-> MapSet(MapDelete(cache, cacheKey), cacheKey, cached)]

setCachedSymbolsAtOpenVersion(cache, cacheKey, version, symbols) ==
    MapSet(IF ~MapHas(cache, cacheKey) /\ Len(cache) >= MAX_CACHE_ENTRIES
           THEN MapDelete(cache, cache[1].key) ELSE cache,
           cacheKey,
           [version |-> IF openVersion[cacheKey] # None THEN openVersion[cacheKey][1]
                        ELSE version,
            symbols |-> symbols])

setCachedSymbolsNoEviction(cache, cacheKey, version, symbols) ==
    MapSet(cache, cacheKey, [version |-> version, symbols |-> symbols])

setCachedSymbolsKeepNewer(cache, cacheKey, version, symbols) ==
    IF MapHas(cache, cacheKey) /\ MapValue(cache, cacheKey).version > version
    THEN cache
    ELSE MapSet(cache, cacheKey, [version |-> version, symbols |-> symbols])

setCachedSymbols(cache, cacheKey, version, symbols) ==
    LET evicted ==
            IF ~MapHas(cache, cacheKey) /\ Len(cache) >= MAX_CACHE_ENTRIES
            THEN MapDelete(cache, cache[1].key)     \* symbolCache.keys().next().value
            ELSE cache
    IN  MapSet(evicted, cacheKey, [version |-> version, symbols |-> symbols])

clearInFlightExactKey(inFlight, prefix) ==
    MapDelete(inFlight, prefix)

clearInFlightByPrefix(inFlight, prefix) ==
    SelectSeq(inFlight, LAMBDA e : ~StartsWith(e.key, prefix))

\* The active document is one of workspace.textDocuments, so both lookups of
\* the function read the same version.
getOpenDocumentVersion(cacheKey) == openVersion[cacheKey]

\* `${cacheKey}#${version ?? "untracked"}`
RequestKey(cacheKey, version) ==
    cacheKey \o Hash \o (IF version = None THEN Untracked ELSE NumberToString(version[1]))

\* A slot of `requests` that holds no unsettled promise.
Free == [status |-> "free", uri |-> <<>>, version |-> None, requestKey |-> <<>>,
         cleared |-> FALSE, invalidated |-> FALSE]

Pending(r) == r \in 1..MaxPending /\ requests[r].status = "pending"

FreeSlot == CHOOSE r \in 1..MaxPending :
                /\ requests[r].status = "free"
                /\ \A q \in 1..(r - 1) : requests[q].status # "free"

\* History: a use of cacheKey (hit or store) makes it the most recently used
\* of the keys the cache holds.
Used(order, cache, cacheKey) ==
    SelectSeq(order, LAMBDA k : k # cacheKey /\ MapHas(cache, k)) \o <<cacheKey>>

NoOp == [op |-> "none", via |-> "", request |-> 0, answer |-> NotAnArray, symbols |-> <<>>,
         replaced |-> None, uri |-> <<>>, version |-> None]

resolveSymbols(uri) ==
    LET cacheKey == uri
        version == getOpenDocumentVersion(cacheKey)
        lookup == IF version # None
                  THEN getCachedSymbols(symbolCache, cacheKey, version[1])
                  ELSE CacheMiss(symbolCache)
        requestKey == RequestKey(cacheKey, version)
    IN  IF lookup.found
        THEN /\ symbolCache' = lookup.cache
             /\ useOrder' = Used(useOrder, lookup.cache, cacheKey)
             /\ lastOp' = [NoOp EXCEPT !.op = "resolveSymbols",
                                       !.via = "cache", !.symbols = lookup.symbols]
             /\ UNCHANGED <<openVersion, inFlightRequests, requests>>
        ELSE IF MapHas(inFlightRequests, requestKey)
        THEN LET pending == MapValue(inFlightRequests, requestKey)
             IN  /\ lastOp' = [NoOp EXCEPT !.op = "resolveSymbols",
                                           !.via = "pending", !.request = pending]
                 /\ UNCHANGED <<openVersion, symbolCache, inFlightRequests, requests,
                                useOrder>>
        ELSE /\ \E r \in 1..MaxPending : requests[r].status = "free"
             /\ requests' = [requests EXCEPT ![FreeSlot] =
                    [status |-> "pending", uri |-> uri, version |-> version,
                     requestKey |-> requestKey, cleared |-> FALSE,
                     invalidated |-> FALSE]]
             /\ inFlightRequests' = MapSet(inFlightRequests, requestKey, FreeSlot)
             /\ lastOp' = [NoOp EXCEPT !.op = "resolveSymbols",
                                       !.via = "new", !.request = FreeSlot]
             /\ UNCHANGED <<openVersion, symbolCache, useOrder>>

\* The external lookup of request r answers: fetchAndNormalizeSymbols returns,
\* the .then callback stores the result, the .finally callback removes the
\* marker.  The three run as consecutive microtasks; resolveSymbols and the
\* clear functions are only entered from event handlers (tasks), so none of
\* them runs in between.
\* History: a lookup that started after the invalidation of its document has
\* completed, which ends the invalidation for the lookups that were pending
\* when it ran.
ReleaseInvalidated(reqs, settled) ==
    [r \in 1..MaxPending |->
        IF /\ reqs[r].status = "pending"
           /\ reqs[r].uri = settled.uri
           /\ ~settled.invalidated
        THEN [reqs[r] EXCEPT !.invalidated = FALSE]
        ELSE reqs[r]]

SettleRequest(r, answer) ==
    /\ Pending(r)
    /\ LET req == requests[r]
           symbols == fetchAndNormalizeSymbols(answer)
           stored == IF req.version # None
                     THEN setCachedSymbols(symbolCache, req.uri, req.version[1], symbols)
                     ELSE symbolCache
       IN  /\ symbolCache' = stored
           /\ useOrder' = IF req.version # None
                          THEN Used(useOrder, stored, req.uri)
                          ELSE useOrder
           /\ inFlightRequests' = MapDelete(inFlightRequests, req.requestKey)
           /\ requests' = ReleaseInvalidated([requests EXCEPT ![r] = Free], req)
           /\ lastOp' = [NoOp EXCEPT !.op = "settle", !.answer = answer,
                                     !.symbols = symbols,
                                     !.uri = req.uri,
                                     !.version = req.version,
                                     !.replaced =
                                         IF req.version # None /\ MapHas(symbolCache, req.uri)
                                         THEN Some(MapValue(symbolCache, req.uri).version)
                                         ELSE None]
    /\ UNCHANGED openVersion

\* History: the pending requests that a clear function ran over.
MarkCleared ==
    [r \in 1..MaxPending |->
        IF requests[r].status = "pending"
        THEN [requests[r] EXCEPT !.cleared = TRUE]
        ELSE requests[r]]

\* History: the pending requests for one of the documents, which a clear
\* function has just removed from the cache.
MarkInvalidated(reqs, uris) ==
    [r \in 1..MaxPending |->
        IF reqs[r].status = "pending" /\ reqs[r].uri \in uris
        THEN [reqs[r] EXCEPT !.invalidated = TRUE]
        ELSE reqs[r]]

clearSymbolCache(uri) ==
    LET cacheKey == uri
    IN  /\ symbolCache' = MapDelete(symbolCache, cacheKey)
        /\ inFlightRequests' = clearInFlightByPrefix(inFlightRequests, cacheKey \o Hash)
        /\ useOrder' = SelectSeq(useOrder, LAMBDA k : k # cacheKey)
        /\ requests' = MarkInvalidated(MarkCleared, {uri})
        /\ lastOp' = [NoOp EXCEPT !.op = "clearSymbolCache"]
        /\ UNCHANGED openVersion

clearAllSymbolCache ==
    /\ symbolCache' = <<>>
    /\ inFlightRequests' = <<>>
    /\ useOrder' = <<>>
    /\ requests' = MarkInvalidated(MarkCleared, Uris)
    /\ lastOp' = [NoOp EXCEPT !.op = "clearAllSymbolCache"]
    /\ UNCHANGED openVersion

(* The environment: documents are opened, edited and closed. *)
OpenDocument(uri) ==
    /\ uri \in EditedUris
    /\ openVersion[uri] = None
    /\ openVersion' = [openVersion EXCEPT ![uri] = Some(1)]
    /\ UNCHANGED <<symbolCache, inFlightRequests, requests, lastOp, useOrder>>

EditDocument(uri) ==
    /\ openVersion[uri] # None
    /\ uri \in EditedUris
    /\ openVersion[uri][1] < MaxVersion
    /\ openVersion' = [openVersion EXCEPT ![uri] = Some(@[1] + 1)]
    /\ UNCHANGED <<symbolCache, inFlightRequests, requests, lastOp, useOrder>>

CloseDocument(uri) ==
    /\ uri \in EditedUris
    /\ openVersion[uri] # None
    /\ openVersion' = [openVersion EXCEPT ![uri] = None]
    /\ UNCHANGED <<symbolCache, inFlightRequests, requests, lastOp, useOrder>>

ResolverInit ==
    /\ openVersion = [u \in Uris |-> IF u \in EditedUris THEN None ELSE Some(1)]
    /\ symbolCache = <<>>
    /\ inFlightRequests = <<>>
    /\ requests = [r \in 1..MaxPending |-> Free]
    /\ lastOp = NoOp
    /\ useOrder = <<>>

LocatorIdle ==
    /\ methods = <<>>
    /\ cursorLine = 0
    /\ located = None

SidebarIdle ==
    /\ activeEditor = None
    /\ view = FALSE
    /\ currentMethods = <<>>
    /\ lastHighlightId = None
    /\ lastViewMessage = None
    /\ parses = <<>>
    /\ latest = None
    /\ shown = None
    /\ parsedSymbols = <<>>
    /\ highlightCall = None

TextIdle ==
    /\ textInput = <<>>
    /\ textOutput = None

Init ==
    /\ ResolverInit
    /\ LocatorIdle
    /\ SidebarIdle
    /\ TextIdle

Next ==
    \/ \E uri \in Uris : resolveSymbols(uri) /\ UNCHANGED <<locatorVars, sidebarVars, textVars>>
    \/ \E r \in 1..MaxPending, answer \in ProviderAnswers :
            SettleRequest(r, answer) /\ UNCHANGED <<locatorVars, sidebarVars, textVars>>
    \/ \E uri \in Uris : clearSymbolCache(uri) /\ UNCHANGED <<locatorVars, sidebarVars, textVars>>
    \/ clearAllSymbolCache /\ UNCHANGED <<locatorVars, sidebarVars, textVars>>
    \/ \E uri \in Uris : OpenDocument(uri) /\ UNCHANGED <<locatorVars, sidebarVars, textVars>>
    \/ \E uri \in Uris : EditDocument(uri) /\ UNCHANGED <<locatorVars, sidebarVars, textVars>>
    \/ \E uri \in Uris : CloseDocument(uri) /\ UNCHANGED <<locatorVars, sidebarVars, textVars>>

Spec == Init /\ [][Next]_vars

----------------------------------------------------------------------------
(* Claims about the symbol resolver, checked under Spec *)

AnyVersion == {None} \cup {Some(v) : v \in 1..(MaxVersion + 1)}

\* The in-flight keys that belong to a document: any version, or untracked.
KeyBelongsTo(key, uri) == \E version \in AnyVersion : key = RequestKey(uri, version)

\* C1: if resolveSymbols(d) is called while the lookup started by an earlier
\* resolveSymbols(d) is pending, the open version of d is the version that
\* lookup was started for, and no clear function ran since it started, then
\* the call starts no lookup and is handed the promise of the pending one.
C1_Coalescing ==
    [][\A uri \in Uris : \A r \in 1..MaxPending :
          ( /\ Pending(r)
            /\ requests[r].uri = uri
            /\ requests[r].version = openVersion[uri]
            /\ ~requests[r].cleared
            /\ resolveSymbols(uri) )
          => ( /\ requests' = requests
               /\ lastOp'.via = "pending"
               /\ lastOp'.request = r )]_vars

\* C2: in every reachable state no two pending lookups were started for the
\* same key (document, version or untracked).
C2_OnePendingPerKey ==
    \A r1, r2 \in 1..MaxPending :
        (Pending(r1) /\ Pending(r2) /\ requests[r1].requestKey = requests[r2].requestKey)
            => r1 = r2

\* C6: a call for a document that is open at version v while the cache holds
\* an entry stored for that version returns that entry's symbols and starts
\* no lookup; an entry of another version is not returned.
C6_CacheHit ==
    [][\A uri \in Uris :
          resolveSymbols(uri) =>
              IF /\ openVersion[uri] # None
                 /\ MapHas(symbolCache, uri)
                 /\ MapValue(symbolCache, uri).version = openVersion[uri][1]
              THEN /\ lastOp'.via = "cache"
                   /\ lastOp'.symbols = MapValue(symbolCache, uri).symbols
                   /\ requests' = requests
                   /\ inFlightRequests' = inFlightRequests
              ELSE lastOp'.via # "cache"]_vars

C6_Witness ==
    /\ lastOp.op = "resolveSymbols"
    /\ lastOp.via = "cache"
    /\ lastOp.symbols # <<>>
    /\ \E r \in 1..MaxPending : Pending(r)

\* C7: when a store evicts, the evicted entry is the one whose most recent
\* use (hit or store, a replacing store included) is the oldest.
C7_StrictLRU ==
    [][\A r \in 1..MaxPending : \A answer \in ProviderAnswers :
          SettleRequest(r, answer) =>
              \A k \in MapKeys(symbolCache) :
                  k \notin MapKeys(symbolCache') => k = Head(useOrder)]_vars

\* C8: right after clearSymbolCache(d) the cache holds no entry for d and the
\* in-flight map no key of d; right after clearAllSymbolCache both are empty.
C8_Invalidate ==
    [][/\ \A uri \in Uris :
            clearSymbolCache(uri) =>
                /\ ~MapHas(symbolCache', uri)
                /\ \A key \in MapKeys(inFlightRequests') : ~KeyBelongsTo(key, uri)
       /\ clearAllSymbolCache =>
                /\ Len(symbolCache') = 0
                /\ Len(inFlightRequests') = 0]_vars

C8_Witness ==
    /\ lastOp.op = "clearSymbolCache"
    /\ \E r \in 1..MaxPending :
          /\ Pending(r)
          /\ requests[r].cleared
          /\ \A key \in MapKeys(inFlightRequests) : ~KeyBelongsTo(key, requests[r].uri)
    /\ Len(symbolCache) > 0

\* C9: when the lookup throws or answers with a value that is not a non-empty
\* array whose first element has the hierarchical or the flat shape, the
\* promise that the callers hold resolves with the empty list.
C9_FailureIsEmptyList ==
    (lastOp.op = "settle" /\ Unrecognized(lastOp.answer)) => lastOp.symbols = <<>>

C9_Witness ==
    /\ lastOp.op = "settle"
    /\ lastOp.answer.isArray
    /\ Len(lastOp.answer.items) > 0
    /\ Unrecognized(lastOp.answer)

\* The step is the completion of the lookup of request r: only SettleRequest
\* frees the slot of a pending request.
Settles(r) == Pending(r) /\ requests'[r].status = "free"

\* C18 as stated: the completion of a lookup never replaces the cache entry of
\* a document by an entry of a lower version.
C18_NeverLowerVersion ==
    [][\A r \in 1..MaxPending :
          Settles(r) =>
              \A uri \in Uris :
                  (MapHas(symbolCache, uri) /\ MapHas(symbolCache', uri)) =>
                      MapValue(symbolCache', uri).version >= MapValue(symbolCache, uri).version]_vars

\* C18: when the lookup of a request that was started for a known version
\* completes, the cache holds for its document the entry of that version with
\* the symbols of that lookup, whatever entry it held before: of lookups for
\* two versions the one that completes last leaves its entry.
C18_LastCompletionStored ==
    [][\A r \in 1..MaxPending :
          (Settles(r) /\ requests[r].version # None) =>
              /\ MapHas(symbolCache', requests[r].uri)
              /\ MapValue(symbolCache', requests[r].uri) =
                     [version |-> requests[r].version[1], symbols |-> lastOp'.symbols]]_vars

\* The lookup for version 1 of document a has completed after the one for
\* version 2 and replaced its entry, while a is still open at version 2.
C18_Witness ==
    /\ lastOp.op = "settle"
    /\ lastOp.replaced = Some(2)
    /\ openVersion[Str_a] = Some(2)
    /\ MapHas(symbolCache, Str_a)
    /\ MapValue(symbolCache, Str_a).version = 1

\* C19: when a lookup completes that was pending while its document was
\* invalidated, and no lookup started after that invalidation has completed
\* yet, the cache holds no entry for the document afterwards.
C19_NoStoreAfterInvalidate ==
    [][\A r \in 1..MaxPending :
          (Settles(r) /\ requests[r].invalidated) =>
              ~MapHas(symbolCache', requests[r].uri)]_vars

\* C20: the completion of a lookup, with a result or with a failure, leaves no
\* marker under the key of its request, and in a state where no lookup is
\* pending the in-flight map is empty.
C20_MarkersRemoved ==
    /\ [][\A r \in 1..MaxPending :
             Settles(r) => ~MapHas(inFlightRequests', requests[r].requestKey)]_vars
    /\ []((\A r \in 1..MaxPending : ~Pending(r)) => Len(inFlightRequests) = 0)

\* A lookup that failed has just completed, nothing is pending and its marker
\* is gone.
C20_Witness ==
    /\ lastOp.op = "settle"
    /\ lastOp.answer = Rejected
    /\ \A r \in 1..MaxPending : ~Pending(r)
    /\ Len(inFlightRequests) = 0

\* C21: when a lookup completes that resolveSymbols started after it had read
\* an open version, its result is in the cache under that version, also when
\* the document is open at another version by then; when the call had read no
\* open version the result is handed back and the cache is left as it was.
C21_StoredUnderObservedVersion ==
    [][\A r \in 1..MaxPending :
          Settles(r) =>
              /\ lastOp'.symbols = fetchAndNormalizeSymbols(lastOp'.answer)
              /\ IF requests[r].version # None
                 THEN /\ MapHas(symbolCache', requests[r].uri)
                      /\ MapValue(symbolCache', requests[r].uri).version
                            = requests[r].version[1]
                      /\ MapValue(symbolCache', requests[r].uri).symbols = lastOp'.symbols
                 ELSE symbolCache' = symbolCache]_vars

\* C21 witness: the lookup started for version 1 of document a has completed
\* and its result is cached under version 1, while a is open at version 2 and
\* the lookup started for version 2 is still pending.
C21_Witness ==
    /\ lastOp.op = "settle"
    /\ lastOp.uri = Str_a
    /\ lastOp.version = Some(1)
    /\ openVersion[Str_a] = Some(2)
    /\ MapHas(symbolCache, Str_a)
    /\ MapValue(symbolCache, Str_a) = [version |-> 1, symbols |-> lastOp.symbols]
    /\ \E r \in 1..MaxPending :
          Pending(r) /\ requests[r].uri = Str_a /\ requests[r].version = Some(2)

\* C22: in every reachable state the cache holds at most MAX_CACHE_ENTRIES
\* entries.
C22_CacheBounded == Len(symbolCache) <= MAX_CACHE_ENTRIES

\* C22 witness: the cache is full, the lookup that completed last stored an
\* entry for a document the cache did not hold, and a lookup for a further
\* document is pending.
C22_Witness ==
    /\ Len(symbolCache) = MAX_CACHE_ENTRIES
    /\ lastOp.op = "settle"
    /\ lastOp.version # None
    /\ lastOp.replaced = None
    /\ MapHas(symbolCache, lastOp.uri)
    /\ \E r \in 1..MaxPending : Pending(r) /\ ~MapHas(symbolCache, requests[r].uri)

\* C23: when the lookup started for version v of a document fails, the empty
\* list is cached under v, and a call for a document that is open at the
\* version of a cached empty list returns the empty list from the cache and
\* starts no lookup.
C23_FailureCached ==
    [][/\ \A r \in 1..MaxPending :
             (Settles(r) /\ lastOp'.answer = Rejected /\ requests[r].version # None) =>
                 /\ MapHas(symbolCache', requests[r].uri)
                 /\ MapValue(symbolCache', requests[r].uri)
                        = [version |-> requests[r].version[1], symbols |-> <<>>]
       /\ \A uri \in Uris :
             ( /\ resolveSymbols(uri)
               /\ openVersion[uri] # None
               /\ MapHas(symbolCache, uri)
               /\ MapValue(symbolCache, uri)
                      = [version |-> openVersion[uri][1], symbols |-> <<>>] )
             => /\ lastOp'.via = "cache"
                /\ lastOp'.symbols = <<>>
                /\ requests' = requests
                /\ inFlightRequests' = inFlightRequests]_vars

\* C23 witness: the lookup for document b, open at version 1, has failed and
\* the cache holds the empty list for b under version 1.
C23_Witness ==
    /\ lastOp.op = "settle"
    /\ lastOp.answer = Rejected
    /\ lastOp.uri = Str_b
    /\ lastOp.version = Some(1)
    /\ openVersion[Str_b] = Some(1)
    /\ MapHas(symbolCache, Str_b)
    /\ MapValue(symbolCache, Str_b) = [version |-> 1, symbols |-> <<>>]

\* A call has been answered from the cache with the empty list.
C23_WitnessHit ==
    /\ lastOp.op = "resolveSymbols"
    /\ lastOp.via = "cache"
    /\ lastOp.symbols = <<>>

----------------------------------------------------------------------------
(* binarySearch: the cursor locator.  Lists are indexed from 0 as in the    *)
(* code; element i of the list is methods[i + 1].                           *)

isLineInsideMethod(method, line) ==
    method.startLine <= line /\ line <= method.endLine

RECURSIVE LowerBoundLoop(_, _, _, _)
LowerBoundLoop(list, line, left, right) ==
    IF left < right
    THEN LET mid == left + ((right - left) \div 2)
         IN  IF list[mid + 1].startLine < line
             THEN LowerBoundLoop(list, line, mid + 1, right)
             ELSE LowerBoundLoop(list, line, left, mid)
    ELSE left - 1

findRightmostStartLineBefore(list, line) ==
    LowerBoundLoop(list, line, 0, Len(list))

\* The while loop over the half-open interval [left, right).
RECURSIVE UpperBoundLoop(_, _, _, _)
UpperBoundLoop(list, line, left, right) ==
    IF left < right
    THEN LET mid == left + ((right - left) \div 2)
         IN  IF list[mid + 1].startLine <= line
             THEN UpperBoundLoop(list, line, mid + 1, right)
             ELSE UpperBoundLoop(list, line, left, mid)
    ELSE left - 1

findRightmostStartLineAtOrBefore(list, line) ==
    UpperBoundLoop(list, line, 0, Len(list))

binarySearchMethodNoEndCheck(list, line) ==
    IF Len(list) = 0 THEN -1
    ELSE IF line < list[1].startLine \/ line > list[Len(list)].endLine THEN -1
    ELSE findRightmostStartLineAtOrBefore(list, line)

\* Returns the index of the element returned, -1 for null.
binarySearchMethod(list, line) ==
    IF Len(list) = 0 THEN -1
    ELSE IF line < list[1].startLine \/ line > list[Len(list)].endLine THEN -1
    ELSE LET candidateIndex == findRightmostStartLineAtOrBefore(list, line)
         IN  IF candidateIndex < 0 THEN -1
             ELSE IF isLineInsideMethod(list[candidateIndex + 1], line)
                  THEN candidateIndex
                  ELSE -1

Lines == 0..MaxLine

Ranges == {r \in [startLine : Lines, endLine : Lines] : r.startLine <= r.endLine}

SortedByStartLine(list) ==
    \A i \in 1..(Len(list) - 1) : list[i].startLine <= list[i + 1].startLine

\* The inputs: every list of at most MaxMethods ranges sorted by start line.
SortedLists ==
    {list \in UNION {[1..n -> Ranges] : n \in 0..MaxMethods} : SortedByStartLine(list)}

LocatorInit ==
    /\ methods \in SortedLists
    /\ cursorLine \in 0..(MaxLine + 1)
    /\ located = None

Locate ==
    /\ located = None
    /\ located' = Some(binarySearchMethod(methods, cursorLine))
    /\ UNCHANGED <<methods, cursorLine>>

InitLocate ==
    /\ ResolverInit
    /\ LocatorInit
    /\ SidebarIdle
    /\ TextIdle

NextLocate == Locate /\ UNCHANGED <<resolverVars, sidebarVars, textVars>>

SpecLocate == InitLocate /\ [][NextLocate]_vars

----------------------------------------------------------------------------
(* Claims about the cursor locator, checked under SpecLocate *)

Containing(list, line) == {i \in 1..Len(list) : isLineInsideMethod(list[i], line)}

EndsAscending(list) ==
    \A i \in 1..(Len(list) - 1) : list[i].endLine <= list[i + 1].endLine

FindsContaining ==
    IF Containing(methods, cursorLine) # {}
    THEN located[1] + 1 \in Containing(methods, cursorLine)
    ELSE located[1] = -1

\* C4 as stated: for every non-empty list sorted by start line (overlapping
\* and nested ranges included) the locator returns a declaration containing
\* the line whenever one exists, and none only if none exists.
C4_Original ==
    (located # None /\ Len(methods) > 0) => FindsContaining

\* C4 as amended: the same, for the sorted lists whose end lines are in
\* ascending order too (ranges may overlap, none outlasts a later one).
C4_EnclosingFound ==
    (located # None /\ Len(methods) > 0 /\ EndsAscending(methods)) => FindsContaining

C4_Witness ==
    /\ located # None
    /\ EndsAscending(methods)
    /\ Cardinality(Containing(methods, cursorLine)) >= 2
    /\ located[1] >= 0

\* The line lies between two adjacent declarations that do not overlap.
InGap(list, line) ==
    \E i \in 1..(Len(list) - 1) :
        /\ list[i].endLine < list[i + 1].startLine
        /\ list[i].endLine < line
        /\ line < list[i + 1].startLine

\* C5: a returned declaration is the rightmost element whose start line is at
\* or before the query line, and it contains the line; a line in a gap
\* between two adjacent non-overlapping declarations, before the first start
\* or after the last end yields none.
C5_RightmostCandidate ==
    located # None =>
        /\ located[1] >= 0 =>
              /\ located[1] + 1 \in 1..Len(methods)
              /\ methods[located[1] + 1].startLine <= cursorLine
              /\ cursorLine <= methods[located[1] + 1].endLine
              /\ \A j \in 1..Len(methods) :
                    methods[j].startLine <= cursorLine => j <= located[1] + 1
        /\ ( Len(methods) > 0 /\
             ( \/ InGap(methods, cursorLine)
               \/ cursorLine < methods[1].startLine
               \/ cursorLine > methods[Len(methods)].endLine ) )
           => located[1] = -1

C5_Witness ==
    /\ located # None
    /\ InGap(methods, cursorLine)
    /\ located[1] = -1

----------------------------------------------------------------------------
(* JavaDocParser.parse: from the symbol tree to the sorted lists.  The      *)
(* members of a document that are read from its text (signature, comment,   *)
(* tags, access modifier) are not part of the records here.                 *)

CLASS_LIKE_KINDS == {"Class", "Interface", "Enum"}
METHOD_KINDS == {"Method", "Constructor", "Function"}
FIELD_KINDS == {"Field", "Constant"}

isClassLikeSymbol(symbol) == symbol.kind \in CLASS_LIKE_KINDS
isMethodSymbol(symbol) == symbol.kind \in METHOD_KINDS
isFieldSymbol(symbol) == symbol.kind \in FIELD_KINDS
isEnumMemberSymbol(symbol) == symbol.kind = "EnumMember"
isConstructorSymbol(symbol) == symbol.kind = "Constructor"

\* A DocumentSymbol: selectionLine is selectionRange.start.line, startLine and
\* endLine are range.start.line and range.end.line.
Symbol(name, kind, selectionLine, startLine, endLine, children) ==
    [name |-> name, kind |-> kind, selectionLine |-> selectionLine,
     startLine |-> startLine, endLine |-> endLine, children |-> children]

\* A variant that tags a member with the name of its nearest container only.
RECURSIVE flattenSymbolsNearestOwner(_, _)
flattenSymbolsNearestOwner(symbols, parentName) ==
    IF Len(symbols) = 0 THEN <<>>
    ELSE LET symbol == Head(symbols)
             here == IF isClassLikeSymbol(symbol)
                     THEN IF Len(symbol.children) > 0
                          THEN flattenSymbolsNearestOwner(symbol.children, symbol.name)
                          ELSE <<>>
                     ELSE IF \/ isMethodSymbol(symbol)
                             \/ isFieldSymbol(symbol)
                             \/ isEnumMemberSymbol(symbol)
                     THEN <<[symbol |-> symbol,
                             belongsTo |-> IF Len(parentName) > 0 THEN parentName
                                           ELSE <<"U", "n", "k", "n", "o", "w", "n">>]>>
                     ELSE <<>>
         IN  here \o flattenSymbolsNearestOwner(Tail(symbols), parentName)

RECURSIVE flattenSymbols(_, _)
flattenSymbols(symbols, parentName) ==
    IF Len(symbols) = 0 THEN <<>>
    ELSE LET symbol == Head(symbols)
             currentClass == IF Len(parentName) > 0
                             THEN parentName \o <<".">> \o symbol.name
                             ELSE symbol.name
             here == IF isClassLikeSymbol(symbol)
                     THEN IF Len(symbol.children) > 0
                          THEN flattenSymbols(symbol.children, currentClass)
                          ELSE <<>>
                     ELSE IF \/ isMethodSymbol(symbol)
                             \/ isFieldSymbol(symbol)
                             \/ isEnumMemberSymbol(symbol)
                     THEN <<[symbol |-> symbol,
                             belongsTo |-> IF Len(parentName) > 0 THEN parentName
                                           ELSE <<"U", "n", "k", "n", "o", "w", "n">>]>>
                     ELSE <<>>
         IN  here \o flattenSymbols(Tail(symbols), parentName)

\* A symbol that came without a range or a selection range (a
\* SymbolInformation has neither) carries -1 in place of the line.
HasRange(symbol) == symbol.startLine >= 0
HasSelectionRange(symbol) == symbol.selectionLine >= 0

\* symbol.selectionRange?.start.line ?? symbol.range.start.line
DeclarationLine(symbol) ==
    IF HasSelectionRange(symbol) THEN symbol.selectionLine ELSE symbol.startLine

\* The reads that throw a TypeError inside the try blocks: symbol.range.end.line
\* in parseMethod, symbol.range.start.line after the `??` in all three.
parseMethodThrows(flattened) == ~HasRange(flattened.symbol)
parseFieldThrows(flattened) ==
    ~HasSelectionRange(flattened.symbol) /\ ~HasRange(flattened.symbol)
parseEnumConstantThrows(flattened) ==
    ~HasSelectionRange(flattened.symbol) /\ ~HasRange(flattened.symbol)

parseMethod(flattened) ==
    LET symbol == flattened.symbol
        startLine == DeclarationLine(symbol)
    IN  [id |-> symbol.name \o <<"_">> \o NumberToString(startLine),
         kind |-> IF isConstructorSymbol(symbol) THEN "constructor" ELSE "method",
         name |-> symbol.name,
         startLine |-> startLine,
         endLine |-> symbol.endLine,
         belongsTo |-> flattened.belongsTo]

parseField(flattened) ==
    [name |-> flattened.symbol.name,
     startLine |-> DeclarationLine(flattened.symbol),
     belongsTo |-> flattened.belongsTo]

parseEnumConstant(flattened) ==
    [name |-> flattened.symbol.name,
     startLine |-> DeclarationLine(flattened.symbol),
     belongsTo |-> flattened.belongsTo]

\* Array.prototype.sort((a, b) => a.startLine - b.startLine): a stable sort.
RECURSIVE InsertByStartLine(_, _)
InsertByStartLine(sorted, item) ==
    IF Len(sorted) = 0 THEN <<item>>
    ELSE IF sorted[Len(sorted)].startLine <= item.startLine THEN Append(sorted, item)
    ELSE Append(InsertByStartLine(SubSeq(sorted, 1, Len(sorted) - 1), item),
                sorted[Len(sorted)])

RECURSIVE SortFrom(_, _)
SortFrom(list, sorted) ==
    IF Len(list) = 0 THEN sorted
    ELSE SortFrom(Tail(list), InsertByStartLine(sorted, Head(list)))

keepProviderOrder(list) == list

sortByStartLine(list) == SortFrom(list, <<>>)

\* A variant in which a declaration that throws ends the parse with empty
\* lists.
parseStopsAtThrow(document, symbols) ==
    LET flattenedSymbols == flattenSymbols(symbols, <<>>)
        methodSymbols == SelectSeq(flattenedSymbols, LAMBDA fs : isMethodSymbol(fs.symbol))
        fieldSymbols == SelectSeq(flattenedSymbols, LAMBDA fs : isFieldSymbol(fs.symbol))
        enumSymbols == SelectSeq(flattenedSymbols, LAMBDA fs : isEnumMemberSymbol(fs.symbol))
        thrown == \/ \E i \in 1..Len(methodSymbols) : parseMethodThrows(methodSymbols[i])
                  \/ \E i \in 1..Len(fieldSymbols) : parseFieldThrows(fieldSymbols[i])
                  \/ \E i \in 1..Len(enumSymbols) : parseEnumConstantThrows(enumSymbols[i])
    IN  [filePath |-> document.fsPath,
         methods |-> IF thrown THEN <<>> ELSE sortByStartLine(
             [i \in 1..Len(methodSymbols) |-> parseMethod(methodSymbols[i])]),
         fields |-> IF thrown THEN <<>> ELSE sortByStartLine(
             [i \in 1..Len(fieldSymbols) |-> parseField(fieldSymbols[i])]),
         enumConstants |-> IF thrown THEN <<>> ELSE sortByStartLine(
             [i \in 1..Len(enumSymbols) |-> parseEnumConstant(enumSymbols[i])])]

\* The document model, for the symbols resolveSymbols returned.  A parseX
\* call that throws returns null and `.filter((m) => m !== null)` drops it:
\* the lists are built from the symbols whose call does not throw.
parse(document, symbols) ==
    LET flattenedSymbols == flattenSymbols(symbols, <<>>)
        methodSymbols == SelectSeq(flattenedSymbols,
            LAMBDA fs : isMethodSymbol(fs.symbol) /\ ~parseMethodThrows(fs))
        fieldSymbols == SelectSeq(flattenedSymbols,
            LAMBDA fs : isFieldSymbol(fs.symbol) /\ ~parseFieldThrows(fs))
        enumSymbols == SelectSeq(flattenedSymbols,
            LAMBDA fs : isEnumMemberSymbol(fs.symbol) /\ ~parseEnumConstantThrows(fs))
    IN  [filePath |-> document.fsPath,
         methods |-> sortByStartLine(
             [i \in 1..Len(methodSymbols) |-> parseMethod(methodSymbols[i])]),
         fields |-> sortByStartLine(
             [i \in 1..Len(fieldSymbols) |-> parseField(fieldSymbols[i])]),
         enumConstants |-> sortByStartLine(
             [i \in 1..Len(enumSymbols) |-> parseEnumConstant(enumSymbols[i])])]

\* getGitInfo: undefined when the file is in no repository, when the service
\* has no information, and when a call of the service throws.
getGitInfo(git) ==
    IF git.throws THEN None
    ELSE IF ~git.isGitRepository THEN None
    ELSE IF git.info = None THEN None
    ELSE Some([author |-> git.info[1].author,
               lastModifier |-> git.info[1].lastModifier,
               lastModifyDate |-> git.info[1].lastModifyDate])

(* The symbol trees of the model: one class whose members the provider      *)
(* lists in any order.                                                      *)
MemberPool ==
    { Symbol(<<"m">>, "Method", 2, 2, 3, <<>>),
      Symbol(<<"m">>, "Method", 2, 2, 2, <<>>),     \* an overload on the same line
      Symbol(<<"n">>, "Constructor", 5, 4, 6, <<>>),
      Symbol(<<"f">>, "Field", 1, 1, 1, <<>>),
      Symbol(<<"g">>, "Constant", 7, 7, 7, <<>>),
      Symbol(<<"E">>, "EnumMember", 0, 0, 0, <<>>),
      Symbol(<<"G">>, "EnumMember", 8, 8, 8, <<>>),
      Symbol(<<"p">>, "Property", 9, 9, 9, <<>>),
      Symbol(<<"I">>, "Class", 10, 10, 13,
             <<Symbol(<<"k">>, "Method", 11, 11, 12, <<>>)>>) }

Injective(list) == \A i, j \in 1..Len(list) : list[i] = list[j] => i = j

MemberLists ==
    {list \in UNION {[1..n -> MemberPool] : n \in 0..MaxChildren} : Injective(list)}

SymbolTrees ==
    {<<>>} \cup {<<Symbol(<<"C">>, "Class", 0, 0, 14, members)>> : members \in MemberLists}

----------------------------------------------------------------------------
(* SidebarProvider and the listeners of extension.ts, for one provider *)

JavaA == [fsPath |-> <<"A">>, languageId |-> "java"]
JavaB == [fsPath |-> <<"B">>, languageId |-> "java"]
Notes == [fsPath |-> <<"N">>, languageId |-> "plaintext"]
Documents == {JavaA, JavaB, Notes}

SUPPORTED_LANGUAGE_IDS == {"java", "typescript", "javascript"}
isSupportedLanguage(languageId) == languageId \in SUPPORTED_LANGUAGE_IDS

getTargetSupportDocument(document) ==
    LET candidate == IF document # None THEN document ELSE activeEditor
    IN  IF candidate = None \/ ~isSupportedLanguage(candidate[1].languageId)
        THEN None
        ELSE candidate

ClearViewMessage ==
    [type |-> "clearView", filePath |-> <<>>, methods |-> <<>>, fields |-> <<>>,
     enumConstants |-> <<>>]

UpdateViewMessage(classDoc) ==
    [type |-> "updateView", filePath |-> classDoc.filePath, methods |-> classDoc.methods,
     fields |-> classDoc.fields, enumConstants |-> classDoc.enumConstants]

\* void this.view?.webview.postMessage(message)
postMessage(message) ==
    lastViewMessage' = IF view' THEN Some(message) ELSE lastViewMessage

clearView ==
    /\ currentMethods' = <<>>
    /\ lastHighlightId' = None
    /\ postMessage(ClearViewMessage)
    /\ latest' = Some([kind |-> "clearView", document |-> None])
    /\ shown' = None
    /\ highlightCall' = None
    /\ UNCHANGED <<parses, parsedSymbols>>

\* refresh up to `await this.parser.parse(doc)`.
refresh(document) ==
    LET doc == getTargetSupportDocument(document)
    IN  IF doc = None
        THEN clearView
        ELSE /\ Len(parses) < MaxParses
             /\ parses' = Append(parses, doc[1])
             /\ latest' = Some([kind |-> "refresh", document |-> doc])
             /\ highlightCall' = None
             /\ UNCHANGED <<currentMethods, lastHighlightId, lastViewMessage, shown,
                            parsedSymbols>>

\* refresh from the point where parse returns its document model.
CompleteParse(i, symbols) ==
    /\ i \in 1..Len(parses)
    /\ UNCHANGED <<activeEditor, view, latest>>
    /\ LET classDoc == parse(parses[i], symbols)
       IN  /\ currentMethods' = classDoc.methods
           /\ lastHighlightId' = None
           /\ postMessage(UpdateViewMessage(classDoc))
           /\ shown' = Some(parses[i])
    /\ parsedSymbols' = symbols
    /\ highlightCall' = None
    /\ parses' = SubSeq(parses, 1, i - 1) \o SubSeq(parses, i + 1, Len(parses))

resolveWebviewView ==
    /\ ~view
    /\ view' = TRUE
    /\ refresh(None)
    /\ UNCHANGED activeEditor

\* extension.ts: vscode.window.onDidChangeActiveTextEditor
ChangeActiveTextEditor(editor) ==
    /\ editor # activeEditor
    /\ activeEditor' = editor
    /\ UNCHANGED view
    /\ IF editor # None /\ editor[1].languageId = "java"
       THEN refresh(editor)
       ELSE clearView

\* extension.ts: vscode.workspace.onDidSaveTextDocument
SaveTextDocument(document) ==
    /\ UNCHANGED <<activeEditor, view>>
    /\ IF document.languageId = "java"
       THEN refresh(Some(document))
       ELSE UNCHANGED <<currentMethods, lastHighlightId, lastViewMessage, parses, latest,
                        shown, parsedSymbols, highlightCall>>

\* extension.ts: the command javaDocSidebar.refresh
RefreshCommand ==
    /\ UNCHANGED <<activeEditor, view>>
    /\ refresh(None)

\* handleUpstreamMessage: case "webviewReady"
WebviewReady ==
    /\ view
    /\ UNCHANGED <<activeEditor, view>>
    /\ refresh(None)

\* The id of the method binarySearchMethod returns, null when it returns null.
LocatedId(list, line) ==
    LET index == binarySearchMethod(list, line)
    IN  IF index < 0 THEN None ELSE Some(list[index + 1].id)

updateHighlightAlwaysPosts(line) ==
    LET newId == LocatedId(currentMethods, line)
    IN  /\ lastHighlightId' = newId
        /\ highlightCall' = Some([line |-> line, before |-> lastHighlightId,
                                  posted |-> newId])
        /\ UNCHANGED <<activeEditor, view, currentMethods, lastViewMessage, parses, latest,
                       shown, parsedSymbols>>

\* The callback of debouncedHighlight.  The webview keeps no state of the
\* model, so what is posted is recorded in highlightCall only.
updateHighlight(line) ==
    LET newId == LocatedId(currentMethods, line)
    IN  /\ IF newId = lastHighlightId
           THEN /\ UNCHANGED lastHighlightId
                /\ highlightCall' = Some([line |-> line, before |-> lastHighlightId,
                                          posted |-> None])
           ELSE /\ lastHighlightId' = newId
                \* if (newId): an id is `${name}_${startLine}`, never empty
                /\ highlightCall' = Some([line |-> line, before |-> lastHighlightId,
                                          posted |-> IF newId # None /\ Len(newId[1]) > 0
                                                     THEN newId ELSE None])
        /\ UNCHANGED <<activeEditor, view, currentMethods, lastViewMessage, parses, latest,
                       shown, parsedSymbols>>

Editors == {None} \cup {Some(d) : d \in Documents}

InitSidebar ==
    /\ ResolverInit
    /\ LocatorIdle
    /\ SidebarIdle
    /\ TextIdle

NextSidebar ==
    \/ resolveWebviewView /\ UNCHANGED <<resolverVars, locatorVars, textVars>>
    \/ \E editor \in Editors :
            ChangeActiveTextEditor(editor) /\ UNCHANGED <<resolverVars, locatorVars, textVars>>
    \/ \E document \in Documents :
            SaveTextDocument(document) /\ UNCHANGED <<resolverVars, locatorVars, textVars>>
    \/ RefreshCommand /\ UNCHANGED <<resolverVars, locatorVars, textVars>>
    \/ WebviewReady /\ UNCHANGED <<resolverVars, locatorVars, textVars>>
    \/ \E i \in 1..MaxParses, symbols \in SymbolTrees :
            CompleteParse(i, symbols) /\ UNCHANGED <<resolverVars, locatorVars, textVars>>

SpecSidebar == InitSidebar /\ [][NextSidebar]_vars

(* The provider with the cursor listener: the same handlers, the parses     *)
(* completing on a few symbol trees, and updateHighlight for the lines of   *)
(* CursorLines.                                                             *)
HighlightTrees ==
    { <<>>,
      <<Symbol(<<"C">>, "Class", 0, 0, 14,
               <<Symbol(<<"m">>, "Method", 2, 2, 3, <<>>),
                 Symbol(<<"n">>, "Constructor", 5, 4, 6, <<>>)>>)>>,
      <<Symbol(<<"C">>, "Class", 0, 0, 14,
               <<Symbol(<<"m">>, "Method", 2, 2, 2, <<>>),
                 Symbol(<<"m">>, "Method", 2, 2, 3, <<>>)>>)>> }

CursorLines == {1, 2, 3, 5}

InitHighlight ==
    /\ ResolverInit
    /\ LocatorIdle
    /\ SidebarIdle
    /\ TextIdle

NextHighlight ==
    \/ resolveWebviewView /\ UNCHANGED <<resolverVars, locatorVars, textVars>>
    \/ \E editor \in Editors :
            ChangeActiveTextEditor(editor) /\ UNCHANGED <<resolverVars, locatorVars, textVars>>
    \/ \E document \in Documents :
            SaveTextDocument(document) /\ UNCHANGED <<resolverVars, locatorVars, textVars>>
    \/ RefreshCommand /\ UNCHANGED <<resolverVars, locatorVars, textVars>>
    \/ WebviewReady /\ UNCHANGED <<resolverVars, locatorVars, textVars>>
    \/ \E i \in 1..MaxParses, symbols \in HighlightTrees :
            CompleteParse(i, symbols) /\ UNCHANGED <<resolverVars, locatorVars, textVars>>
    \/ \E line \in CursorLines :
            updateHighlight(line) /\ UNCHANGED <<resolverVars, locatorVars, textVars>>

SpecHighlight == InitHighlight /\ [][NextHighlight]_vars

----------------------------------------------------------------------------
(* Claims about the sidebar provider and the parsed lists *)

LatestRequest == latest[1]

\* C3: a refresh that was superseded by a later refresh or by clearView has its
\* result discarded: once no parse is pending, whatever the order in which the
\* parses completed, currentMethods and the last updateView/clearView message
\* belong to the most recent request.
C3_LastRequestWins ==
    (parses = <<>> /\ latest # None) =>
        IF LatestRequest.kind = "clearView"
        THEN /\ shown = None
             /\ currentMethods = <<>>
             /\ view => lastViewMessage = Some(ClearViewMessage)
        ELSE /\ shown = Some(LatestRequest.document[1])
             /\ view => /\ lastViewMessage # None
                        /\ lastViewMessage[1].type = "updateView"
                        /\ lastViewMessage[1].filePath = LatestRequest.document[1].fsPath

ModelSorted(classDoc) ==
    /\ SortedByStartLine(classDoc.methods)
    /\ SortedByStartLine(classDoc.fields)
    /\ SortedByStartLine(classDoc.enumConstants)

ListedMethods(symbols) ==
    SelectSeq(flattenSymbols(symbols, <<>>), LAMBDA fs : isMethodSymbol(fs.symbol))

\* C10: the method, field and enum-constant lists of every document model that
\* parse returns are in ascending order of start line, whatever the order of
\* the symbol tree, and so is the method list the provider keeps for the
\* cursor locator and the lists it sends to the view.
C10_ListsSorted ==
    /\ \A document \in Documents : ModelSorted(parse(document, parsedSymbols))
    /\ SortedByStartLine(currentMethods)
    /\ lastViewMessage # None => ModelSorted(lastViewMessage[1])

\* C16: no two method documents of one document model have the same id.
C16_UniqueIds ==
    /\ \A i, j \in 1..Len(currentMethods) :
            currentMethods[i].id = currentMethods[j].id => i = j
    /\ lastViewMessage # None =>
            \A i, j \in 1..Len(lastViewMessage[1].methods) :
                lastViewMessage[1].methods[i].id = lastViewMessage[1].methods[j].id => i = j

C10_Witness ==
    /\ shown # None
    /\ Len(currentMethods) = 2
    /\ LET listed == ListedMethods(parsedSymbols)
       IN  /\ Len(listed) = 2
           /\ listed[1].symbol.selectionLine > listed[2].symbol.selectionLine
           /\ currentMethods = <<parseMethod(listed[2]), parseMethod(listed[1])>>

----------------------------------------------------------------------------
(* Text.  A string is the sequence of its characters; indices are those of  *)
(* the code, counted from 0.                                                *)

\* The characters that the regular expression class \s matches.
WhiteSpace == {" ", "\t", "\n", "\r"}

CharAt(s, i) == s[i + 1]

\* String.prototype.slice(from, to) for 0 <= from and 0 <= to.
Slice(s, from, to) == SubSeq(s, from + 1, IF to > Len(s) THEN Len(s) ELSE to)

SliceFrom(s, from) == SubSeq(s, from + 1, Len(s))

Minimum(S) == CHOOSE i \in S : \A j \in S : i <= j
Maximum(S) == CHOOSE i \in S : \A j \in S : j <= i

\* String.prototype.indexOf for a one-character argument.
IndexOf(s, ch) ==
    LET hits == {i \in 0..(Len(s) - 1) : CharAt(s, i) = ch}
    IN  IF hits = {} THEN -1 ELSE Minimum(hits)

\* The indices of the characters of s that are not white space.
Solid(s) == {i \in 1..Len(s) : s[i] \notin WhiteSpace}

TrimStart(s) == IF Solid(s) = {} THEN <<>> ELSE SubSeq(s, Minimum(Solid(s)), Len(s))

TrimEnd(s) == IF Solid(s) = {} THEN <<>> ELSE SubSeq(s, 1, Maximum(Solid(s)))

Trim(s) == TrimEnd(TrimStart(s))

----------------------------------------------------------------------------
(* JavaDocParser.extractEnumArguments *)

\* lineText.slice(openIndex).replace(/[,;]\s*$/, "")
RemoveTrailingDelimiter(s) ==
    LET matches == {i \in 0..(Len(s) - 1) :
                        /\ CharAt(s, i) \in {",", ";"}
                        /\ \A j \in (i + 1)..(Len(s) - 1) : CharAt(s, j) \in WhiteSpace}
    IN  IF matches = {} THEN s
        ELSE Slice(s, 0, CHOOSE i \in matches : \A j \in matches : i <= j)

RECURSIVE EnumArgumentsLoop(_, _, _, _)
EnumArgumentsLoop(lineText, openIndex, i, depth) ==
    IF i >= Len(lineText)
    THEN RemoveTrailingDelimiter(SliceFrom(lineText, openIndex))
    ELSE LET ch == CharAt(lineText, i)
         IN  IF ch = "("
             THEN EnumArgumentsLoop(lineText, openIndex, i + 1, depth + 1)
             ELSE IF ch = ")"
             THEN IF depth - 1 = 0
                  THEN Slice(lineText, openIndex, i + 1)
                  ELSE EnumArgumentsLoop(lineText, openIndex, i + 1, depth - 1)
             ELSE EnumArgumentsLoop(lineText, openIndex, i + 1, depth)

extractEnumArgumentsToFirstClose(lineText) ==
    LET openIndex == IndexOf(lineText, "(")
        closeIndex == IndexOf(lineText, ")")
    IN  IF openIndex = -1 THEN <<>>
        ELSE IF closeIndex < openIndex
        THEN RemoveTrailingDelimiter(SliceFrom(lineText, openIndex))
        ELSE Slice(lineText, openIndex, closeIndex + 1)

extractEnumArguments(lineText) ==
    LET openIndex == IndexOf(lineText, "(")
    IN  IF openIndex = -1 THEN <<>>
        ELSE EnumArgumentsLoop(lineText, openIndex, openIndex, 0)

\* The lines of the model: the two lines of the method's own examples and
\* every line of at most MaxEnumLine characters over EnumAlphabet.
Line_SUCCESS == <<"S", "U", "C", "C", "E", "S", "S", "(", "2", "0", "0", ",", " ", "\"", "O", "K", "\"", ")", ",">>
Line_PENDING == <<"P", "E", "N", "D", "I", "N", "G", ",">>
EnumAlphabet == {"A", "(", ")", ",", ";", " "}
EnumLines ==
    {Line_SUCCESS, Line_PENDING}
        \cup UNION {[1..n -> EnumAlphabet] : n \in 0..MaxEnumLine}

InitEnum ==
    /\ ResolverInit
    /\ LocatorIdle
    /\ SidebarIdle
    /\ textInput \in {[lineText |-> lineText] : lineText \in EnumLines}
    /\ textOutput = None

ExtractEnumArguments ==
    /\ textOutput = None
    /\ textOutput' = Some(extractEnumArguments(textInput.lineText))
    /\ UNCHANGED textInput

NextEnum == ExtractEnumArguments /\ UNCHANGED <<resolverVars, locatorVars, sidebarVars>>

SpecEnum == InitEnum /\ [][NextEnum]_vars

\* The parenthesis depth after character i, counted from the first '('.
DepthAfter(s, openIndex, i) ==
    Cardinality({j \in openIndex..i : CharAt(s, j) = "("})
        - Cardinality({j \in openIndex..i : CharAt(s, j) = ")"})

\* C15: without a '(' the arguments are the empty text; otherwise they are the
\* text from the first '(' to the first character after which the depth is
\* back to zero; when the depth never returns to zero they are the text from
\* the '(' to the end of the line less one trailing ',' or ';' and the blanks
\* after it.  The two lines of the examples give (200, "OK") and the empty text.
C15_EnumArguments ==
    textOutput # None =>
        LET s == textInput.lineText
            arguments == textOutput[1]
            openIndex == IndexOf(s, "(")
            closing == {i \in openIndex..(Len(s) - 1) : DepthAfter(s, openIndex, i) = 0}
            tail == SliceFrom(s, openIndex)
            EndsWithDelimiter(t) ==
                \E i \in 1..Len(t) :
                    /\ t[i] \in {",", ";"}
                    /\ \A j \in (i + 1)..Len(t) : t[j] \in WhiteSpace
        IN  /\ (\A i \in 1..Len(s) : s[i] # "(") => arguments = <<>>
            /\ (\E i \in 1..Len(s) : s[i] = "(") =>
                  IF closing # {}
                  THEN \E i \in closing :
                          /\ \A j \in closing : i <= j
                          /\ arguments = Slice(s, openIndex, i + 1)
                  ELSE IF EndsWithDelimiter(tail)
                  THEN \E removed \in 1..Len(tail) :
                          /\ tail[Len(tail) - removed + 1] \in {",", ";"}
                          /\ \A j \in (Len(tail) - removed + 2)..Len(tail) :
                                tail[j] \in WhiteSpace
                          /\ arguments = SubSeq(tail, 1, Len(tail) - removed)
                  ELSE arguments = tail
            /\ s = Line_SUCCESS => arguments = <<"(", "2", "0", "0", ",", " ", "\"", "O", "K", "\"", ")">>
            /\ s = Line_PENDING => arguments = <<>>

\* The arguments of a line with nested parentheses have been extracted.
C15_Witness ==
    /\ textOutput # None
    /\ textInput.lineText = <<"(", "(", ")", ")", ",">>
    /\ textOutput[1] = <<"(", "(", ")", ")">>

----------------------------------------------------------------------------
(* TagParser: the parameter types and the return type of a signature *)

LowerCaseLetters ==
    {"a", "b", "c", "d", "e", "f", "g", "h", "i", "j", "k", "l", "m"}
        \cup {"n", "o", "p", "q", "r", "s", "t", "u", "v", "w", "x", "y", "z"}
UpperCaseLetters ==
    {"A", "B", "C", "D", "E", "F", "G", "H", "I", "J", "K", "L", "M"}
        \cup {"N", "O", "P", "Q", "R", "S", "T", "U", "V", "W", "X", "Y", "Z"}
Digits == {"0", "1", "2", "3", "4", "5", "6", "7", "8", "9"}

\* The regular expression classes \w, [A-Za-z_$], [\w$], [\w.] and
\* [\w$<>\[\].?,\s].
WordChars == LowerCaseLetters \cup UpperCaseLetters \cup Digits \cup {"_"}
IdentifierStart == LowerCaseLetters \cup UpperCaseLetters \cup {"_", "$"}
IdentifierPart == WordChars \cup {"$"}
AnnotationNameChars == WordChars \cup {"."}
ReturnTypeChars == WordChars \cup {"$", "<", ">", "[", "]", ".", "?", ","} \cup WhiteSpace

\* String.prototype.startsWith
TextStartsWith(s, prefix) ==
    Len(prefix) <= Len(s) /\ SubSeq(s, 1, Len(prefix)) = prefix

\* The number of characters ch among those at the indices from..to.
CountOf(text, ch, from, to) == Cardinality({i \in from..to : CharAt(text, i) = ch})

\* The loop of findMatchingIndex keeps in `depth` the number of open tokens
\* less the number of close tokens read since startIndex, and returns the
\* first index of a close token at which that number is zero.
findMatchingIndex(text, startIndex, openToken, closeToken) ==
    LET matches == {i \in startIndex..(Len(text) - 1) :
                        /\ CharAt(text, i) = closeToken
                        /\ CountOf(text, openToken, startIndex, i)
                              = CountOf(text, closeToken, startIndex, i)}
    IN  IF matches = {} THEN -1 ELSE Minimum(matches)

\* The result is the empty text where the function returns null: its caller
\* only tests `!paramsText`.
extractParenContent(signature) ==
    LET openParen == IndexOf(signature, "(")
        closeParen == findMatchingIndex(signature, openParen, "(", ")")
    IN  IF openParen < 0 THEN <<>>
        ELSE IF closeParen < 0 THEN Trim(SliceFrom(signature, openParen + 1))
        ELSE Trim(Slice(signature, openParen + 1, closeParen))

\* while (index < text.length && class.test(text[index])) index++
SkipWhile(text, index, class) ==
    LET others == {i \in index..(Len(text) - 1) : CharAt(text, i) \notin class}
    IN  IF others = {} THEN (IF index > Len(text) THEN index ELSE Len(text))
        ELSE Minimum(others)

stripLeadingAnnotation(text) ==
    LET afterName == SkipWhile(text, 1, AnnotationNameChars)
        index == SkipWhile(text, afterName, WhiteSpace)
    IN  IF index < Len(text) /\ CharAt(text, index) = "("
        THEN LET closeParen == findMatchingIndex(text, index, "(", ")")
             IN  IF closeParen < 0 THEN <<>> ELSE SliceFrom(text, closeParen + 1)
        ELSE SliceFrom(text, index)

Modifier_final == <<"f", "i", "n", "a", "l">>
PARAM_MODIFIERS == {Modifier_final}

RECURSIVE stripAnnotationsAndModifiers(_)
stripAnnotationsAndModifiers(paramDecl) ==
    IF Len(paramDecl) = 0 THEN paramDecl
    ELSE LET trimmed == TrimStart(paramDecl)
             stripped == {modifier \in PARAM_MODIFIERS :
                            /\ TextStartsWith(trimmed, modifier)
                            /\ \/ Len(trimmed) = Len(modifier)
                               \/ CharAt(trimmed, Len(modifier)) \in WhiteSpace}
         IN  IF TextStartsWith(trimmed, <<"@">>)
             THEN stripAnnotationsAndModifiers(stripLeadingAnnotation(trimmed))
             ELSE IF stripped # {}
             THEN stripAnnotationsAndModifiers(
                      SliceFrom(trimmed, Len(CHOOSE modifier \in stripped : TRUE)))
             ELSE trimmed

\* A depth of splitByTopLevelComma after the characters 1..i: it goes up by
\* one at each open token and down by one, but not below zero, at each close
\* token, so it is the largest excess of open over close tokens among the
\* stretches j+1..i.
ClampedDepth(text, i, openToken, closeToken) ==
    LET Excess(j) ==
            Cardinality({k \in (j + 1)..i : text[k] = openToken})
                - Cardinality({k \in (j + 1)..i : text[k] = closeToken})
    IN  Maximum({Excess(j) : j \in 0..i})

\* The pieces between the cuts, in order; the last one reaches the end.
PiecesBetween(text, cuts) ==
    LET ends == cuts \cup {Len(text) + 1}
        Ordered(n) == CHOOSE i \in ends : Cardinality({j \in ends : j < i}) = n - 1
        Piece(i) ==
            LET before == {j \in cuts : j < i}
            IN  SubSeq(text, IF before = {} THEN 1 ELSE Maximum(before) + 1, i - 1)
    IN  [n \in 1..Cardinality(ends) |-> Piece(Ordered(n))]

splitAtEveryComma(paramsText) ==
    PiecesBetween(paramsText, {i \in 1..Len(paramsText) : paramsText[i] = ","})

\* The loop pushes `current` at every ',' it reads while both depths are zero,
\* and the rest after the loop unless it is blank.
splitByTopLevelComma(paramsText) ==
    LET cuts == {i \in 1..Len(paramsText) :
                    /\ paramsText[i] = ","
                    /\ ClampedDepth(paramsText, i - 1, "<", ">") = 0
                    /\ ClampedDepth(paramsText, i - 1, "(", ")") = 0}
        pieces == PiecesBetween(paramsText, cuts)
    IN  IF Len(Trim(pieces[Len(pieces)])) > 0
        THEN pieces
        ELSE SubSeq(pieces, 1, Len(pieces) - 1)

\* String.prototype.lastIndexOf(" ")
LastSpace(s) ==
    LET spaces == {i \in 0..(Len(s) - 1) : CharAt(s, i) = " "}
    IN  IF spaces = {} THEN -1 ELSE Maximum(spaces)

RECURSIVE declarationsLoop(_, _)
declarationsLoop(declarations, result) ==
    IF Len(declarations) = 0 THEN result
    ELSE LET trimmed == Trim(Head(declarations))
             cleaned == stripAnnotationsAndModifiers(trimmed)
             lastSpace == LastSpace(cleaned)
             type == Trim(Slice(cleaned, 0, lastSpace))
             name == Trim(SliceFrom(cleaned, lastSpace + 1))
         IN  IF Len(trimmed) = 0 \/ lastSpace < 0 \/ Len(name) = 0 \/ Len(type) = 0
             THEN declarationsLoop(Tail(declarations), result)
             ELSE declarationsLoop(Tail(declarations), MapSet(result, name, type))

\* The Map name -> type, in insertion order.
parseSignatureParams(signature) ==
    LET paramsText == extractParenContent(signature)
    IN  IF Len(paramsText) = 0 THEN <<>>
        ELSE declarationsLoop(splitByTopLevelComma(paramsText), <<>>)

\* The words of JAVA_METHOD_MODIFIER_PREFIX.
METHOD_MODIFIERS ==
    { <<"p", "u", "b", "l", "i", "c">>,
      <<"p", "r", "i", "v", "a", "t", "e">>,
      <<"p", "r", "o", "t", "e", "c", "t", "e", "d">>,
      <<"s", "t", "a", "t", "i", "c">>,
      <<"f", "i", "n", "a", "l">>,
      <<"a", "b", "s", "t", "r", "a", "c", "t">>,
      <<"s", "y", "n", "c", "h", "r", "o", "n", "i", "z", "e", "d">>,
      <<"d", "e", "f", "a", "u", "l", "t">>,
      <<"n", "a", "t", "i", "v", "e">>,
      <<"s", "t", "r", "i", "c", "t", "f", "p">> }

\* replace(JAVA_METHOD_MODIFIER_PREFIX, ""): after the leading blanks, every
\* modifier word that is followed by a blank goes, with the blanks after it.
RECURSIVE stripModifierWords(_)
stripModifierWords(s) ==
    LET found == {modifier \in METHOD_MODIFIERS :
                    /\ TextStartsWith(s, modifier)
                    /\ Len(s) > Len(modifier)
                    /\ CharAt(s, Len(modifier)) \in WhiteSpace}
    IN  IF found = {} THEN s
        ELSE stripModifierWords(
                 TrimStart(SliceFrom(s, Len(CHOOSE modifier \in found : TRUE))))

stripMethodModifierPrefix(s) == stripModifierWords(TrimStart(s))

\* text matches \s+[A-Za-z_$][\w$]*\s*\( from index k on.
NameAndParenFollow(text, k) ==
    LET afterBlanks == SkipWhile(text, k, WhiteSpace)
        afterName == SkipWhile(text, afterBlanks + 1, IdentifierPart)
        paren == SkipWhile(text, afterName, WhiteSpace)
    IN  /\ afterBlanks > k
        /\ afterBlanks < Len(text)
        /\ CharAt(text, afterBlanks) \in IdentifierStart
        /\ paren < Len(text)
        /\ CharAt(text, paren) = "("

\* The lengths k of the prefixes of text that match [A-Za-z_$][\w$<>\[\].?,\s]*
\* and are followed by \s+[A-Za-z_$][\w$]*\s*\(.
TypePrefixes(text) ==
    {k \in 1..Len(text) :
        /\ text[1] \in IdentifierStart
        /\ \A i \in 2..k : text[i] \in ReturnTypeChars
        /\ NameAndParenFollow(text, k)}

removeMethodGenericDecl(signature) ==
    LET openAngle == IndexOf(signature, "<")
        openParen == IndexOf(signature, "(")
        closeAngle == findMatchingIndex(signature, openAngle, "<", ">")
        afterGeneric == TrimStart(SliceFrom(signature, closeAngle + 1))
    IN  IF openAngle < 0 \/ openParen < 0 \/ openAngle > openParen THEN signature
        ELSE IF closeAngle < 0 THEN signature
        ELSE IF TypePrefixes(afterGeneric) # {}
        THEN Slice(signature, 0, openAngle) \o afterGeneric
        ELSE signature

Type_void == <<"v", "o", "i", "d">>

parseReturnType(signature) ==
    LET openBrace == IndexOf(signature, "{")
        \* signature.replace(/\{[\s\S]*$/, "").trim()
        cleanSignature == Trim(IF openBrace < 0 THEN signature
                               ELSE Slice(signature, 0, openBrace))
        withoutGenericDecl == removeMethodGenericDecl(cleanSignature)
        withoutModifiers == stripMethodModifierPrefix(withoutGenericDecl)
        prefixes == TypePrefixes(withoutModifiers)
    IN  IF prefixes = {} THEN Type_void
        \* the group is lazy: the shortest prefix that lets the rest match
        ELSE Trim(SubSeq(withoutModifiers, 1,
                         CHOOSE k \in prefixes : \A j \in prefixes : k <= j))

(* The signatures of the model: modifiers, a return type, the name and at   *)
(* most MaxParams parameters, each with annotations and modifiers in front  *)
(* of its type.                                                             *)
Type_String == <<"S", "t", "r", "i", "n", "g">>
Type_intArray == <<"i", "n", "t", "[", "]">>
Type_Map == <<"M", "a", "p", "<", "S", "t", "r", "i", "n", "g", ",", " ", "L", "i", "s", "t", "<", "I", "n", "t", "e", "g", "e", "r", ">", ">">>
Type_List == <<"L", "i", "s", "t", "<", "S", "t", "r", "i", "n", "g", ">">>
Type_int == <<"i", "n", "t">>

SignatureModifiers ==
    { <<>>,
      <<"p", "u", "b", "l", "i", "c", " ">>,
      <<"p", "u", "b", "l", "i", "c", " ", "s", "t", "a", "t", "i", "c", " ">>,
      <<"p", "u", "b", "l", "i", "c", " ", "<", "T", ">", " ">> }
ReturnTypes == {Type_void, Type_int, Type_Map, Type_List}
ParamPrefixes ==
    { <<>>,
      <<"f", "i", "n", "a", "l", " ">>,
      <<"@", "N", "o", "t", "N", "u", "l", "l", " ">>,
      <<"@", "N", "o", "t", "N", "u", "l", "l", " ", "f", "i", "n", "a", "l", " ">>,
      <<"@", "P", "(", "\"", "i", "\"", ",", " ", "1", ")", " ">> }
ParamTypes == {Type_String, Type_intArray, Type_Map}
ParamNames == <<<<"a">>, <<"b">>, <<"c">>>>
MethodName == <<"m", "e", "r", "g", "e">>

ParamLists ==
    UNION {[1..n -> [prefix : ParamPrefixes, type : ParamTypes]] : n \in 0..MaxParams}

RECURSIVE ParamsText(_, _)
ParamsText(params, n) ==
    IF n > Len(params) THEN <<>>
    ELSE (IF n > 1 THEN <<",", " ">> ELSE <<>>)
            \o params[n].prefix \o params[n].type \o <<" ">> \o ParamNames[n]
            \o ParamsText(params, n + 1)

SignatureText(parts) ==
    parts.modifiers \o parts.returnType \o <<" ">> \o MethodName
        \o <<"(">> \o ParamsText(parts.params, 1) \o <<")">>

InitSignature ==
    /\ ResolverInit
    /\ LocatorIdle
    /\ SidebarIdle
    /\ textInput \in [modifiers : SignatureModifiers, returnType : ReturnTypes,
                      params : ParamLists]
    /\ textOutput = None

ParseSignature ==
    /\ textOutput = None
    /\ textOutput' = Some([paramTypes |-> parseSignatureParams(SignatureText(textInput)),
                           returnType |-> parseReturnType(SignatureText(textInput))])
    /\ UNCHANGED textInput

NextSignature == ParseSignature /\ UNCHANGED <<resolverVars, locatorVars, sidebarVars>>

SpecSignature == InitSignature /\ [][NextSignature]_vars

MergeExample ==
    [modifiers |-> <<"p", "u", "b", "l", "i", "c", " ">>, returnType |-> Type_Map,
     params |-> <<[prefix |-> <<"@", "N", "o", "t", "N", "u", "l", "l", " ", "f", "i", "n", "a", "l", " ">>, type |-> Type_String],
                  [prefix |-> <<>>, type |-> Type_intArray]>>]

\* C14: the parameter-type table maps the name of each parameter to its
\* declared type, in the order of the declarations, whatever annotations and
\* 'final' precede the type and whatever commas the types and the annotation
\* arguments contain, and the return type is the declared one; the signature
\* "public Map<String, List<Integer>> merge(@NotNull final String a, int[] b)"
\* gives a -> String, b -> int[] and Map<String, List<Integer>>.
C14_ParamTypes ==
    textOutput # None =>
        /\ textOutput[1].paramTypes =
              [n \in 1..Len(textInput.params) |->
                  [key |-> ParamNames[n], value |-> textInput.params[n].type]]
        /\ textOutput[1].returnType = textInput.returnType
        /\ textInput = MergeExample =>
              /\ SignatureText(textInput) =
                    <<"p", "u", "b", "l", "i", "c", " ", "M", "a", "p", "<", "S", "t", "r", "i", "n", "g", ",", " ", "L", "i", "s", "t", "<", "I", "n", "t", "e", "g", "e", "r", ">", ">", " ", "m", "e", "r", "g", "e", "(", "@", "N", "o", "t", "N", "u", "l", "l", " ", "f", "i", "n", "a", "l", " ", "S", "t", "r", "i", "n", "g", " ", "a", ",", " ", "i", "n", "t", "[", "]", " ", "b", ")">>
              /\ MapValue(textOutput[1].paramTypes, <<"a">>) = Type_String
              /\ MapValue(textOutput[1].paramTypes, <<"b">>) = Type_intArray
              /\ textOutput[1].returnType = Type_Map

\* The signature of the example has been parsed.
C14_Witness ==
    /\ textOutput # None
    /\ textInput = MergeExample
    /\ Len(textOutput[1].paramTypes) = 2

----------------------------------------------------------------------------
(* TagParser: tokenizeTagBlocks and parseTagTable *)

LowerCaseAlphabet ==
    <<"a", "b", "c", "d", "e", "f", "g", "h", "i", "j", "k", "l", "m">>
        \o <<"n", "o", "p", "q", "r", "s", "t", "u", "v", "w", "x", "y", "z">>
UpperCaseAlphabet ==
    <<"A", "B", "C", "D", "E", "F", "G", "H", "I", "J", "K", "L", "M">>
        \o <<"N", "O", "P", "Q", "R", "S", "T", "U", "V", "W", "X", "Y", "Z">>

\* String.prototype.toLowerCase
ToLowerCase(s) ==
    [i \in 1..Len(s) |->
        IF s[i] \in UpperCaseLetters
        THEN LowerCaseAlphabet[CHOOSE n \in 1..26 : UpperCaseAlphabet[n] = s[i]]
        ELSE s[i]]

\* split(/\r?\n/)
SplitLines(text) ==
    LET pieces == PiecesBetween(text, {i \in 1..Len(text) : text[i] = "\n"})
    IN  [n \in 1..Len(pieces) |->
            IF n < Len(pieces) /\ Len(pieces[n]) > 0 /\ pieces[n][Len(pieces[n])] = "\r"
            THEN SubSeq(pieces[n], 1, Len(pieces[n]) - 1)
            ELSE pieces[n]]

\* Array.prototype.join("\n")
RECURSIVE JoinLines(_)
JoinLines(lines) ==
    IF Len(lines) = 0 THEN <<>>
    ELSE IF Len(lines) = 1 THEN lines[1]
    ELSE lines[1] \o <<"\n">> \o JoinLines(Tail(lines))

\* The tags of TAG_LINE_PATTERN and of isSupportedTag.
SupportedTags ==
    { <<"p", "a", "r", "a", "m">>,
      <<"r", "e", "t", "u", "r", "n">>,
      <<"r", "e", "t", "u", "r", "n", "s">>,
      <<"t", "h", "r", "o", "w", "s">>,
      <<"e", "x", "c", "e", "p", "t", "i", "o", "n">>,
      <<"s", "i", "n", "c", "e">>,
      <<"a", "u", "t", "h", "o", "r">>,
      <<"d", "e", "p", "r", "e", "c", "a", "t", "e", "d">>,
      <<"s", "e", "e">>,
      <<"d", "o", "c">>,
      <<"e", "x", "a", "m", "p", "l", "e">> }

\* line.replace(/^\s*\*\s?/, "")
normalizeJavadocLine(line) ==
    LET star == SkipWhile(line, 0, WhiteSpace)
    IN  IF star < Len(line) /\ CharAt(line, star) = "*"
        THEN IF star + 1 < Len(line) /\ CharAt(line, star + 1) \in WhiteSpace
             THEN SliceFrom(line, star + 2)
             ELSE SliceFrom(line, star + 1)
        ELSE line

\* TAG_LINE_PATTERN.exec(line): blanks, at most one '*', blanks, '@', one of the
\* tags in any case ending at a word boundary, blanks, and the rest of the line
\* as the content.  A tag ends at a word boundary exactly when it is the whole
\* run of word characters after the '@'.
MatchTagLine(line) ==
    LET blanks == SkipWhile(line, 0, WhiteSpace)
        afterStar == IF blanks < Len(line) /\ CharAt(line, blanks) = "*"
                     THEN SkipWhile(line, blanks + 1, WhiteSpace)
                     ELSE blanks
        wordEnd == SkipWhile(line, afterStar + 1, WordChars)
        word == Slice(line, afterStar + 1, wordEnd)
    IN  IF /\ afterStar < Len(line)
           /\ CharAt(line, afterStar) = "@"
           /\ ToLowerCase(word) \in SupportedTags
        THEN [matched |-> TRUE, tag |-> word,
              content |-> SliceFrom(line, SkipWhile(line, wordEnd, WhiteSpace))]
        ELSE [matched |-> FALSE, tag |-> <<>>, content |-> <<>>]

isSupportedTag(value) == value \in SupportedTags

\* flush(): activeTag is <<>> for null.
Flush(state) ==
    IF state.activeTag = <<>> THEN state
    ELSE [blocks |-> Append(state.blocks,
                            [tag |-> state.activeTag,
                             content |-> Trim(JoinLines(state.buffer))]),
          activeTag |-> <<>>,
          buffer |-> <<>>]

RECURSIVE tokenizeLoop(_, _)
tokenizeLoop(lines, state) ==
    IF Len(lines) = 0 THEN Flush(state)
    ELSE LET line == normalizeJavadocLine(Head(lines))
             match == MatchTagLine(line)
             tagText == ToLowerCase(match.tag)
             flushed == Flush(state)
         IN  IF match.matched
             THEN tokenizeLoop(Tail(lines),
                      IF isSupportedTag(tagText)
                      THEN [flushed EXCEPT !.activeTag = tagText,
                                           !.buffer = Append(@, Trim(match.content))]
                      ELSE flushed)
             ELSE IF state.activeTag # <<>>
             THEN tokenizeLoop(Tail(lines), [state EXCEPT !.buffer = Append(@, Trim(line))])
             ELSE tokenizeLoop(Tail(lines), state)

tokenizeTagBlocks(rawTags) ==
    tokenizeLoop(SplitLines(rawTags),
                 [blocks |-> <<>>, activeTag |-> <<>>, buffer |-> <<>>]).blocks


Type_typeParameter == <<"t", "y", "p", "e", "-", "p", "a", "r", "a", "m", "e", "t", "e", "r">>
Type_unknown == <<"u", "n", "k", "n", "o", "w", "n">>

\* /^(<\s*[A-Za-z_$][\w$]*\s*>|[A-Za-z_$][\w$]*)\s*(.*)$/s: the index after
\* group 1, or -1 when the content does not match.
ParamNameEnd(content) ==
    LET nameStart == SkipWhile(content, 1, WhiteSpace)
        nameEnd == SkipWhile(content, nameStart + 1, IdentifierPart)
        closeAngle == SkipWhile(content, nameEnd, WhiteSpace)
    IN  IF Len(content) = 0 THEN -1
        ELSE IF /\ CharAt(content, 0) = "<"
                /\ nameStart < Len(content)
                /\ CharAt(content, nameStart) \in IdentifierStart
                /\ closeAngle < Len(content)
                /\ CharAt(content, closeAngle) = ">"
        THEN closeAngle + 1
        ELSE IF CharAt(content, 0) \in IdentifierStart
        THEN SkipWhile(content, 1, IdentifierPart)
        ELSE -1

parseParamTag(content, paramTypes) ==
    LET nameEnd == ParamNameEnd(content)
        rawName == SelectSeq(Slice(content, 0, nameEnd), LAMBDA c : c \notin WhiteSpace)
        description == Trim(SliceFrom(content, nameEnd))
        isTypeParameter == rawName[1] = "<" /\ rawName[Len(rawName)] = ">"
        type == IF isTypeParameter THEN Type_typeParameter
                ELSE IF MapHas(paramTypes, rawName) THEN MapValue(paramTypes, rawName)
                ELSE Type_unknown
    IN  IF nameEnd < 0 THEN None
        ELSE Some([name |-> rawName, type |-> type, description |-> description])

\* /^([\w.]+)\s*(.*)$/s
parseThrowsTag(content) ==
    LET typeEnd == SkipWhile(content, 0, AnnotationNameChars)
    IN  IF typeEnd = 0 THEN None
        ELSE Some([type |-> Slice(content, 0, typeEnd),
                   description |-> Trim(SliceFrom(content, typeEnd))])

createEmptyTagTable ==
    [params |-> <<>>, returns |-> None, throws |-> <<>>, since |-> None,
     author |-> None, deprecated |-> None, see |-> <<>>, doc |-> None,
     example |-> None]

\* content || null
OrNull(content) == IF Len(content) = 0 THEN None ELSE Some(content)


ReturnTagEvenForVoid(returnTag, returnType, content) ==
    Some([type |-> returnType, description |-> content])

\* case "return" / "returns": the tag is replaced unless the type is "void".
ReturnTagOf(returnTag, returnType, content) ==
    IF returnType # Type_void
    THEN Some([type |-> returnType, description |-> content])
    ELSE returnTag

\* One turn of the loop over the blocks: the switch on block.tag.
ApplyBlock(table, block, paramTypes, returnType) ==
    LET content == Trim(block.content)
    IN  CASE block.tag = <<"p", "a", "r", "a", "m">> ->
                LET parsed == parseParamTag(content, paramTypes)
                IN  IF parsed # None
                    THEN [table EXCEPT !.params = Append(@, parsed[1])]
                    ELSE table
          [] block.tag \in {<<"r", "e", "t", "u", "r", "n">>, <<"r", "e", "t", "u", "r", "n", "s">>} ->
                [table EXCEPT !.returns = ReturnTagOf(@, returnType, content)]
          [] block.tag \in {<<"t", "h", "r", "o", "w", "s">>, <<"e", "x", "c", "e", "p", "t", "i", "o", "n">>} ->
                LET parsed == parseThrowsTag(content)
                IN  IF parsed # None
                    THEN [table EXCEPT !.throws = Append(@, parsed[1])]
                    ELSE table
          [] block.tag = <<"s", "i", "n", "c", "e">> -> [table EXCEPT !.since = OrNull(content)]
          [] block.tag = <<"a", "u", "t", "h", "o", "r">> -> [table EXCEPT !.author = OrNull(content)]
          [] block.tag = <<"d", "e", "p", "r", "e", "c", "a", "t", "e", "d">> -> [table EXCEPT !.deprecated = OrNull(content)]
          [] block.tag = <<"s", "e", "e">> ->
                IF Len(content) > 0
                THEN [table EXCEPT !.see = Append(@, content)]
                ELSE table
          [] block.tag = <<"d", "o", "c">> -> [table EXCEPT !.doc = OrNull(content)]
          [] block.tag = <<"e", "x", "a", "m", "p", "l", "e">> -> [table EXCEPT !.example = OrNull(content)]
          [] OTHER -> table

RECURSIVE blocksLoop(_, _, _, _)
blocksLoop(blocks, table, paramTypes, returnType) ==
    IF Len(blocks) = 0 THEN table
    ELSE blocksLoop(Tail(blocks),
                    ApplyBlock(table, Head(blocks), paramTypes, returnType),
                    paramTypes, returnType)

parseTagTable(rawTags, signature) ==
    LET blocks == tokenizeTagBlocks(rawTags)
    IN  IF Len(Trim(rawTags)) = 0 THEN createEmptyTagTable
        ELSE IF Len(blocks) = 0 THEN createEmptyTagTable
        ELSE blocksLoop(blocks, createEmptyTagTable,
                        parseSignatureParams(signature), parseReturnType(signature))


(* The tag sections of the model: at most MaxTagLines lines, each a tag     *)
(* line, a continuation line or a blank line, parsed against a constructor, *)
(* a void method and a method that returns a value.                         *)
MaxTagLines == 3

TagLines ==
    { <<"@", "r", "e", "t", "u", "r", "n", " ", "r">>,
      <<"@", "r", "e", "t", "u", "r", "n", "s", " ", "s">>,
      <<" ", "*", " ", "@", "p", "a", "r", "a", "m", " ", "a", " ", "f", "i", "r", "s", "t">>,
      <<"@", "p", "a", "r", "a", "m", " ", "<", "T", ">", " ", "t">>,
      <<"m", "o", "r", "e">>,
      <<"*", " ", "*", " ", "c">>,
      <<"@", "t", "h", "r", "o", "w", "s", " ", "E", ".", "x", " ", "b", "a", "d">>,
      <<"@", "s", "i", "n", "c", "e", " ", "1">>,
      <<"@", "s", "e", "e", " ", "y">>,
      <<"@", "R", "e", "t", "u", "r", "n", " ", "R">>,
      <<"@", "r", "e", "t", "u", "r", "n", "x">>,
      <<>>,
      <<"a", " ", "@", "r", "e", "t", "u", "r", "n", " ", "v">>,
      <<"@", "a", "u", "t", "h", "o", "r">>,
      <<"@", "d", "e", "p", "r", "e", "c", "a", "t", "e", "d", " ", "d">>,
      <<"@", "e", "x", "c", "e", "p", "t", "i", "o", "n", " ", "E">> }

Signature_constructor == <<"p", "u", "b", "l", "i", "c", " ", "F", "o", "o", "(", ")">>
Signature_voidMethod == <<"p", "u", "b", "l", "i", "c", " ", "v", "o", "i", "d", " ", "r", "u", "n", "(", "i", "n", "t", " ", "a", ")">>
Signature_arrayMethod == <<"p", "u", "b", "l", "i", "c", " ", "i", "n", "t", "[", "]", " ", "s", "i", "z", "e", "(", "S", "t", "r", "i", "n", "g", " ", "a", ")">>
TagSignatures == {Signature_constructor, Signature_voidMethod, Signature_arrayMethod}

TagSections == UNION {[1..n -> TagLines] : n \in 0..MaxTagLines}

\* The blocks rejoined as lines "@tag content".
RejoinBlocks(blocks) ==
    JoinLines([n \in 1..Len(blocks) |->
                  <<"@">> \o blocks[n].tag \o <<" ">> \o blocks[n].content])

InitTags ==
    /\ ResolverInit
    /\ LocatorIdle
    /\ SidebarIdle
    /\ textInput \in [lines : TagSections, signature : TagSignatures]
    /\ textOutput = None

ParseTagTable ==
    /\ textOutput = None
    /\ textOutput' = Some([kind |-> "table",
                           tags |-> parseTagTable(JoinLines(textInput.lines),
                                                  textInput.signature)])
    /\ UNCHANGED textInput

TokenizeTwice ==
    /\ textOutput = None
    /\ LET blocks == tokenizeTagBlocks(JoinLines(textInput.lines))
           rejoined == RejoinBlocks(blocks)
       IN  textOutput' = Some([kind |-> "blocks",
                               blocks |-> blocks,
                               rejoined |-> rejoined,
                               again |-> tokenizeTagBlocks(rejoined),
                               tags |-> parseTagTable(JoinLines(textInput.lines),
                                                      textInput.signature),
                               tagsAgain |-> parseTagTable(rejoined, textInput.signature)])
    /\ UNCHANGED textInput

NextTags ==
    /\ ParseTagTable \/ TokenizeTwice
    /\ UNCHANGED <<resolverVars, locatorVars, sidebarVars>>

SpecTags == InitTags /\ [][NextTags]_vars

ReturnBlocks(blocks) == SelectSeq(blocks, LAMBDA b : b.tag \in {<<"r", "e", "t", "u", "r", "n">>, <<"r", "e", "t", "u", "r", "n", "s">>})

\* C13: when the parsed return type of the signature is "void" (the
\* constructor "public Foo()", a method declared void) the Tag Table has no
\* return tag whatever @return and @returns lines the section holds; for any
\* other signature the return tag carries the parsed return type and the
\* content of the last @return/@returns block, and there is none when the
\* section has no such block.
C13_ReturnTag ==
    (textOutput # None /\ textOutput[1].kind = "table") =>
        LET returnBlocks == ReturnBlocks(tokenizeTagBlocks(JoinLines(textInput.lines)))
            returns == textOutput[1].tags.returns
        IN  /\ parseReturnType(Signature_constructor) = Type_void
            /\ parseReturnType(Signature_voidMethod) = Type_void
            /\ parseReturnType(Signature_arrayMethod) = Type_intArray
            /\ textInput.signature \in {Signature_constructor, Signature_voidMethod}
                  => returns = None
            /\ textInput.signature = Signature_arrayMethod =>
                  IF Len(returnBlocks) = 0 THEN returns = None
                  ELSE returns = Some([type |-> Type_intArray,
                                       description |->
                                           returnBlocks[Len(returnBlocks)].content])
            /\ (/\ textInput.lines = <<<<"@", "r", "e", "t", "u", "r", "n", " ", "r">>, <<"m", "o", "r", "e">>, <<"@", "r", "e", "t", "u", "r", "n", "s", " ", "s">>>>
                /\ textInput.signature = Signature_arrayMethod)
                  => returns = Some([type |-> Type_intArray, description |-> <<"s">>])

\* A section with an @return block of two lines and a later @returns block has
\* been parsed against the method that returns int[].
C13_WitnessLast ==
    /\ textOutput # None
    /\ textOutput[1].kind = "table"
    /\ textInput.lines = <<<<"@", "r", "e", "t", "u", "r", "n", " ", "r">>, <<"m", "o", "r", "e">>, <<"@", "r", "e", "t", "u", "r", "n", "s", " ", "s">>>>
    /\ textInput.signature = Signature_arrayMethod
    /\ textOutput[1].tags.returns = Some([type |-> Type_intArray, description |-> <<"s">>])

\* C13 witness: a section with an @return line has been parsed against the
\* constructor "public Foo()" and the table has no return tag.
C13_Witness ==
    /\ textOutput # None
    /\ textOutput[1].kind = "table"
    /\ textInput.lines = <<<<"@", "r", "e", "t", "u", "r", "n", " ", "r">>>>
    /\ textInput.signature = Signature_constructor
    /\ textOutput[1].tags.returns = None

\* C17: tokenizing is idempotent: the blocks of a tag section, rejoined as
\* lines "@tag content", tokenize to the same blocks and parse to the same Tag
\* Table as the section itself.
C17_TokenizeIdempotent ==
    (textOutput # None /\ textOutput[1].kind = "blocks") =>
        /\ textOutput[1].again = textOutput[1].blocks
        /\ textOutput[1].tagsAgain = textOutput[1].tags

----------------------------------------------------------------------------
(* JavaDocParser.cleanComment and parseJavaDoc *)

\* The text without the characters at the positions in `drop`.
RemoveAt(text, drop) ==
    LET keep == (1..Len(text)) \ drop
    IN  [n \in 1..Cardinality(keep) |->
            text[CHOOSE i \in keep : Cardinality({j \in keep : j < i}) = n - 1]]

\* replace(/\/\*\*|\*\//g, ""): the matches are taken from left to right.
RECURSIVE RemoveCommentMarkers(_, _)
RemoveCommentMarkers(text, from) ==
    LET opens == {i \in from..(Len(text) - 3) : Slice(text, i, i + 3) = <<"/", "*", "*">>}
        closes == {i \in from..(Len(text) - 2) : Slice(text, i, i + 2) = <<"*", "/">>}
        next == Minimum(opens \cup closes)
    IN  IF opens \cup closes = {} THEN SliceFrom(text, from)
        ELSE Slice(text, from, next)
                \o RemoveCommentMarkers(text, IF next \in opens THEN next + 3 ELSE next + 2)

\* split("\n")
SplitAtNewlines(text) ==
    PiecesBetween(text, {i \in 1..Len(text) : text[i] = "\n"})

cleanComment(raw) ==
    LET \* replace(/\r\n/g, "\n")
        unixText == RemoveAt(raw, {i \in 1..(Len(raw) - 1) :
                                      raw[i] = "\r" /\ raw[i + 1] = "\n"})
        unmarked == RemoveCommentMarkers(unixText, 0)
        lines == SplitAtNewlines(unmarked)
        \* line.replace(/^\s*\*\s?/, "")
        stripped == [n \in 1..Len(lines) |-> normalizeJavadocLine(lines[n])]
        joined == JoinLines(stripped)
        \* replace(/\n{3,}/g, "\n\n")
        collapsed == RemoveAt(joined, {i \in 3..Len(joined) :
                                          /\ joined[i] = "\n"
                                          /\ joined[i - 1] = "\n"
                                          /\ joined[i - 2] = "\n"})
    IN  Trim(collapsed)

\* cleaned.search(/@\w+/)
SearchTag(cleaned) ==
    LET found == {i \in 0..(Len(cleaned) - 2) :
                     CharAt(cleaned, i) = "@" /\ CharAt(cleaned, i + 1) \in WordChars}
    IN  IF found = {} THEN -1 ELSE Minimum(found)

parseJavadoc(rawComment, signature) ==
    LET cleaned == cleanComment(rawComment)
        tagIndex == SearchTag(cleaned)
        description == IF tagIndex = -1 THEN cleaned ELSE Trim(Slice(cleaned, 0, tagIndex))
        rawTags == IF tagIndex = -1 THEN <<>> ELSE SliceFrom(cleaned, tagIndex)
    IN  [description |-> description, tags |-> parseTagTable(rawTags, signature)]

(* The comments of the model: a block of at most MaxCommentLines lines, each *)
(* ' * ' and one of the texts below, between the lines of its markers.       *)
MaxCommentLines == 3

CommentLineTexts ==
    { <<"C", "o", "m", "p", "u", "t", "e", "s", " ", "@", "r", "e", "t", "u", "r", "n", " ", "v", "a", "l", "u", "e", ".", " ">>,
      <<"@", "p", "a", "r", "a", "m", " ", "x", " ", "t", "h", "e", " ", "i", "n", "p", "u", "t">>,
      <<"P", "l", "a", "i", "n", " ", "t", "e", "x", "t", ".">>,
      <<"@", "r", "e", "t", "u", "r", "n", " ", "r">>,
      <<>>,
      <<"m", "a", "i", "l", " ", "a", "@", "b", ".", "c">>,
      <<"{", "@", "c", "o", "d", "e", " ", "x", "}">> }

CommentBodies == UNION {[1..n -> CommentLineTexts] : n \in 0..MaxCommentLines}

CommentText(body) ==
    JoinLines(<<<<"/", "*", "*">>>>
              \o [n \in 1..Len(body) |-> <<" ", "*", " ">> \o body[n]]
              \o <<<<" ", "*", "/">>>>)

Signature_intMethod == <<"p", "u", "b", "l", "i", "c", " ", "i", "n", "t", " ", "f", "(", "i", "n", "t", " ", "x", ")">>
Signature_voidF == <<"p", "u", "b", "l", "i", "c", " ", "v", "o", "i", "d", " ", "f", "(", "i", "n", "t", " ", "x", ")">>

InitJavadoc ==
    /\ ResolverInit
    /\ LocatorIdle
    /\ SidebarIdle
    /\ textInput \in [body : CommentBodies,
                      signature : {Signature_intMethod, Signature_voidF}]
    /\ textOutput = None

ParseJavadoc ==
    /\ textOutput = None
    /\ textOutput' = Some(parseJavadoc(CommentText(textInput.body), textInput.signature))
    /\ UNCHANGED textInput

NextJavadoc == ParseJavadoc /\ UNCHANGED <<resolverVars, locatorVars, sidebarVars>>

SpecJavadoc == InitJavadoc /\ [][NextJavadoc]_vars

Contains(text, part) ==
    \E i \in 1..(Len(text) - Len(part) + 1) : SubSeq(text, i, i + Len(part) - 1) = part

\* The line is a tag line: trimmed, it starts with '@' and a word character.
StartsWithTag(line) ==
    LET trimmed == Trim(line)
    IN  Len(trimmed) >= 2 /\ trimmed[1] = "@" /\ trimmed[2] \in WordChars

\* The lines before the first tag line.
LinesBeforeTags(lines) ==
    LET tagLines == {n \in 1..Len(lines) : StartsWithTag(lines[n])}
    IN  IF tagLines = {} THEN lines ELSE SubSeq(lines, 1, Minimum(tagLines) - 1)

ReturnInProse == <<<<"C", "o", "m", "p", "u", "t", "e", "s", " ", "@", "r", "e", "t", "u", "r", "n", " ", "v", "a", "l", "u", "e", ".", " ">>, <<"@", "p", "a", "r", "a", "m", " ", "x", " ", "t", "h", "e", " ", "i", "n", "p", "u", "t">>>>

\* C12: an @word that is not at the start of a trimmed line is not a tag
\* boundary: the description is the text of the lines before the first tag
\* line, and for the comment text "Computes @return value. \n@param x the
\* input" the documentation has exactly one parameter tag (x), no return tag
\* and a description that contains "@return".
C12_TagBoundary ==
    textOutput # None =>
        /\ textOutput[1].description =
              Trim(JoinLines(LinesBeforeTags(
                  SplitAtNewlines(cleanComment(CommentText(textInput.body))))))
        /\ textInput.body = ReturnInProse =>
              /\ cleanComment(CommentText(textInput.body))
                    = <<"C", "o", "m", "p", "u", "t", "e", "s", " ", "@", "r", "e", "t", "u", "r", "n", " ", "v", "a", "l", "u", "e", ".", " ", "\n", "@", "p", "a", "r", "a", "m", " ", "x", " ", "t", "h", "e", " ", "i", "n", "p", "u", "t">>
              /\ Len(textOutput[1].tags.params) = 1
              /\ textOutput[1].tags.params[1].name = <<"x">>
              /\ textOutput[1].tags.returns = None
              /\ Contains(textOutput[1].description, <<"@", "r", "e", "t", "u", "r", "n">>)

----------------------------------------------------------------------------
(* JavaDocParser: the comment above a declaration *)

\* lines[index] ?? "", with the rows counted from 0.
LineAt(lines, index) ==
    IF 0 <= index /\ index < Len(lines) THEN lines[index + 1] ELSE <<>>

\* lines.slice(from, to)
SliceLines(lines, from, to) ==
    SubSeq(lines, from + 1, IF to > Len(lines) THEN Len(lines) ELSE to)

\* annotationPattern.test(line): /^\s*@[\w.]+/
annotationPattern(line) ==
    LET at == SkipWhile(line, 0, WhiteSpace)
    IN  /\ at + 1 < Len(line)
        /\ CharAt(line, at) = "@"
        /\ CharAt(line, at + 1) \in AnnotationNameChars

ParenBalance(line) ==
    CountOf(line, "(", 0, Len(line) - 1) - CountOf(line, ")", 0, Len(line) - 1)

\* The inner while loop: the index after the lines of a multi-line annotation.
RECURSIVE SkipAnnotationLines(_, _, _)
SkipAnnotationLines(lines, i, parenDepth) ==
    IF i < Len(lines) /\ parenDepth > 0
    THEN SkipAnnotationLines(lines, i + 1, parenDepth + ParenBalance(LineAt(lines, i)))
    ELSE i

RECURSIVE onlyBlankOrAnnotationsFrom(_, _)
onlyBlankOrAnnotationsFrom(lines, i) ==
    IF i >= Len(lines) THEN TRUE
    ELSE LET line == Trim(LineAt(lines, i))
         IN  IF line = <<>> THEN onlyBlankOrAnnotationsFrom(lines, i + 1)
             ELSE IF ~annotationPattern(line) THEN FALSE
             ELSE onlyBlankOrAnnotationsFrom(lines,
                      SkipAnnotationLines(lines, i + 1, ParenBalance(LineAt(lines, i))))

\* A variant that lets any line stand between the comment and the declaration.
onlyBlankOrAnnotationsAnyLine(lines) == TRUE

onlyBlankOrAnnotations(lines) == onlyBlankOrAnnotationsFrom(lines, 0)

CommentOpen == <<"/", "*", "*">>
CommentClose == <<"*", "/">>

\* String.prototype.endsWith
EndsWith(text, suffix) ==
    Len(suffix) <= Len(text)
        /\ SubSeq(text, Len(text) - Len(suffix) + 1, Len(text)) = suffix

\* The inner for loop: the row of the nearest line at or above endLine that
\* includes the open marker, or -1 when a line above endLine that includes the
\* close marker is met first or no line has the open marker.
FindCommentStart(lines, endLine) ==
    LET opens == {n \in 0..endLine : Contains(LineAt(lines, n), CommentOpen)}
        closes == {n \in 0..(endLine - 1) : Contains(LineAt(lines, n), CommentClose)}
    IN  IF opens = {} THEN -1
        ELSE IF \E n \in closes : n > Maximum(opens) THEN -1
        ELSE Maximum(opens)

\* The loops of extractComment: the rows of the block they settle on, the
\* start row -1 when the scan reaches the top of the text.
NoBlock == [startLine |-> -1, endLine |-> -1]

RECURSIVE extractCommentFrom(_, _, _)
extractCommentFrom(lines, targetLine, endLine) ==
    IF endLine < 0 THEN NoBlock
    ELSE LET trimmed == Trim(LineAt(lines, endLine))
             startLine == FindCommentStart(lines, endLine)
         IN  IF trimmed = <<>> THEN extractCommentFrom(lines, targetLine, endLine - 1)
             ELSE IF ~EndsWith(trimmed, CommentClose)
             THEN extractCommentFrom(lines, targetLine, endLine - 1)
             ELSE IF ~onlyBlankOrAnnotations(SliceLines(lines, endLine + 1, targetLine))
             THEN extractCommentFrom(lines, targetLine, endLine - 1)
             ELSE IF startLine >= 0
             THEN [startLine |-> startLine, endLine |-> endLine]
             ELSE extractCommentFrom(lines, targetLine, endLine - 1)

extractComment(text, targetLine) ==
    LET lines == SplitAtNewlines(text)
        block == extractCommentFrom(lines, targetLine, targetLine - 1)
    IN  IF block.startLine < 0 THEN <<>>
        ELSE JoinLines(SliceLines(lines, block.startLine, block.endLine + 1))

extractMemberCommentKeepAll(text, targetLine, classComment) ==
    extractComment(text, targetLine)

extractMemberComment(text, targetLine, classComment) ==
    LET raw == extractComment(text, targetLine)
    IN  IF Len(raw) = 0 THEN <<>>
        ELSE IF Len(classComment) > 0 /\ raw = classComment THEN <<>>
        ELSE raw

MAX_SIGNATURE_LINES == 15

\* replace(/\s+/g, " ").trim()
NormalizeSpaces(text) ==
    LET single == RemoveAt(text, {i \in 2..Len(text) :
                                     text[i] \in WhiteSpace /\ text[i - 1] \in WhiteSpace})
    IN  Trim([i \in 1..Len(single) |-> IF single[i] \in WhiteSpace THEN " " ELSE single[i]])

\* Every line from startLine on, below maxLine, followed by a blank.
RECURSIVE SignatureLines(_, _, _)
SignatureLines(lines, lineIndex, maxLine) ==
    IF lineIndex >= maxLine THEN <<>>
    ELSE LineAt(lines, lineIndex) \o <<" ">> \o SignatureLines(lines, lineIndex + 1, maxLine)

\* A variant that reads on to the end of the text.
extractFullSignatureUncapped(lines, startLine) ==
    LET read == SignatureLines(lines, startLine, Len(lines))
        closing == {i \in 0..(Len(read) - 1) :
                       /\ CharAt(read, i) = ")"
                       /\ CountOf(read, "(", 0, i) > 0
                       /\ CountOf(read, "(", 0, i) = CountOf(read, ")", 0, i)}
    IN  IF closing = {} THEN NormalizeSpaces(read)
        ELSE NormalizeSpaces(Slice(read, 0, Minimum(closing) + 1))

\* The loop stops after the first ')' at which as many ')' as '(' were read
\* and a '(' was read.
extractFullSignature(lines, startLine) ==
    LET maxLine == IF Len(lines) < startLine + MAX_SIGNATURE_LINES
                   THEN Len(lines) ELSE startLine + MAX_SIGNATURE_LINES
        read == SignatureLines(lines, startLine, maxLine)
        closing == {i \in 0..(Len(read) - 1) :
                       /\ CharAt(read, i) = ")"
                       /\ CountOf(read, "(", 0, i) > 0
                       /\ CountOf(read, "(", 0, i) = CountOf(read, ")", 0, i)}
    IN  IF closing = {} THEN NormalizeSpaces(read)
        ELSE NormalizeSpaces(Slice(read, 0, Minimum(closing) + 1))

\* parseMethod: rawComment, hasComment and description.
MethodComment(text, startLine, classComment) ==
    LET fullSignature == extractFullSignature(SplitAtNewlines(text), startLine)
        rawComment == extractMemberComment(text, startLine, classComment)
        hasComment == Len(rawComment) > 0
    IN  [hasComment |-> hasComment,
         description |-> IF hasComment
                         THEN parseJavadoc(rawComment, fullSignature).description
                         ELSE <<>>]

\* parseField and parseEnumConstant: rawComment, hasComment and description.
FieldComment(text, startLine, classComment) ==
    LET rawComment == extractMemberComment(text, startLine, classComment)
        hasComment == Len(rawComment) > 0
    IN  [hasComment |-> hasComment,
         description |-> IF hasComment THEN cleanComment(rawComment) ELSE <<>>]

EnumConstantComment(text, startLine, classComment) ==
    LET rawComment == extractMemberComment(text, startLine, classComment)
        hasComment == Len(rawComment) > 0
    IN  [hasComment |-> hasComment,
         description |-> IF hasComment THEN cleanComment(rawComment) ELSE <<>>]

(* The documents of the model: at most MaxDocLines lines with one class     *)
(* declaration; the container is reported at the line of the declaration,   *)
(* the member at that line (a generated symbol) or at a line below it.      *)
MaxDocLines == 4

ClassLine == <<"c", "l", "a", "s", "s", " ", "C", " ", "{">>

DocLines ==
    { <<";">>,
      <<"/", "*", "*", " ", "c", " ", "*", "/">>,
      <<"/", "*", "*", " ", "d", " ", "*", "/">>,
      <<"/", "*", "*">>,
      <<" ", "*", " ", "c">>,
      <<" ", "*", "/">>,
      <<>>,
      <<"@", "A">>,
      <<"@", "B", "(", "1", ",">>,
      <<"2", ")">>,
      <<"i", "n", "t", " ", "f", ";">>,
      <<"v", "o", "i", "d", " ", "m", "(", ")", " ", "{", "}">> }

DocTexts ==
    {lines \in UNION {[1..n -> DocLines \cup {ClassLine}] : n \in 1..MaxDocLines} :
        Cardinality({n \in 1..Len(lines) : lines[n] = ClassLine}) = 1}

ClassRow(lines) == (CHOOSE n \in 1..Len(lines) : lines[n] = ClassLine) - 1

InitComment ==
    /\ ResolverInit
    /\ LocatorIdle
    /\ SidebarIdle
    /\ \E lines \in DocTexts : \E startLine \in ClassRow(lines)..(Len(lines) - 1) :
          textInput = [lines |-> lines, classLine |-> ClassRow(lines),
                       startLine |-> startLine]
    /\ textOutput = None

\* parse(): the class comment is the comment above the class symbol.
ClassComment == extractComment(JoinLines(textInput.lines), textInput.classLine)

ParseMethodComment ==
    /\ textOutput = None
    /\ textOutput' = Some([kind |-> "method"] @@
                          MethodComment(JoinLines(textInput.lines), textInput.startLine,
                                        ClassComment))
    /\ UNCHANGED textInput

ParseFieldComment ==
    /\ textOutput = None
    /\ textOutput' = Some([kind |-> "field"] @@
                          FieldComment(JoinLines(textInput.lines), textInput.startLine,
                                       ClassComment))
    /\ UNCHANGED textInput

ParseEnumConstantComment ==
    /\ textOutput = None
    /\ textOutput' = Some([kind |-> "enumConstant"] @@
                          EnumConstantComment(JoinLines(textInput.lines),
                                              textInput.startLine, ClassComment))
    /\ UNCHANGED textInput

NextComment ==
    /\ ParseMethodComment \/ ParseFieldComment \/ ParseEnumConstantComment
    /\ UNCHANGED <<resolverVars, locatorVars, sidebarVars>>

SpecComment == InitComment /\ [][NextComment]_vars

\* The comment block the upward scan recovers for the declaration.
RecoveredComment == extractComment(JoinLines(textInput.lines), textInput.startLine)

\* C11: a method, field or enum constant whose recovered comment block is
\* textually identical to its container's comment is reported with hasComment
\* false and an empty description; a recovered comment that differs from the
\* container's comment is kept: hasComment is true and the description is the
\* one of the recovered block.
C11_CommentDeduplicated ==
    textOutput # None =>
        /\ (RecoveredComment # <<>> /\ RecoveredComment = ClassComment) =>
              /\ ~textOutput[1].hasComment
              /\ textOutput[1].description = <<>>
        /\ (RecoveredComment # <<>> /\ RecoveredComment # ClassComment) =>
              /\ textOutput[1].hasComment
              /\ textOutput[1].description =
                    IF textOutput[1].kind = "method"
                    THEN parseJavadoc(RecoveredComment, <<>>).description
                    ELSE cleanComment(RecoveredComment)
        /\ RecoveredComment = <<>> => ~textOutput[1].hasComment

\* C11 witness: the class comment "/** c */" stands above the class
\* declaration, the field is reported at the line of the declaration, the
\* scan recovers the class comment for it and the field has no comment.
C11_Witness ==
    /\ textOutput # None
    /\ textOutput[1].kind = "field"
    /\ textInput.lines = <<<<"/", "*", "*", " ", "c", " ", "*", "/">>, ClassLine>>
    /\ textInput.startLine = 1
    /\ RecoveredComment = <<"/", "*", "*", " ", "c", " ", "*", "/">>
    /\ ClassComment = RecoveredComment
    /\ ~textOutput[1].hasComment

\* A member with a comment of its own, different from the class comment.
C11_WitnessKept ==
    /\ textOutput # None
    /\ textOutput[1].kind = "method"
    /\ textInput.lines = <<<<"/", "*", "*", " ", "c", " ", "*", "/">>, ClassLine, <<"/", "*", "*", " ", "d", " ", "*", "/">>, <<"v", "o", "i", "d", " ", "m", "(", ")", " ", "{", "}">>>>
    /\ textInput.startLine = 3
    /\ textOutput[1].hasComment
    /\ textOutput[1].description = <<"d">>


\* The rows of the block the upward scan settles on for the declaration.
RecoveredBlock ==
    extractCommentFrom(textInput.lines, textInput.startLine, textInput.startLine - 1)

\* The parenthesis depth after the rows from..to of the document.
RECURSIVE GapDepth(_, _)
GapDepth(from, to) ==
    IF to < from THEN 0
    ELSE ParenBalance(LineAt(textInput.lines, to)) + GapDepth(from, to - 1)

\* Row k continues an annotation that starts at a row in first..(k - 1) and
\* whose argument list is open on every row down to k - 1.
ContinuesAnnotation(first, k) ==
    \E j \in first..(k - 1) :
        /\ annotationPattern(Trim(LineAt(textInput.lines, j)))
        /\ \A i \in j..(k - 1) : GapDepth(j, i) > 0

SemicolonLine == <<";">>

\* C25: when a block ending at row e is returned for the declaration at row t,
\* every row strictly between e and t is blank, an annotation line, or a
\* continuation line of an annotation whose argument list is still open; a row
\* holding only ';' that continues no annotation is never below the returned
\* block, and when no comment ends between that row and the declaration the
\* result is the empty text and the member has no comment.
C25_GapOnlyAnnotations ==
    textOutput # None =>
        LET lines == textInput.lines
            t == textInput.startLine
            block == RecoveredBlock
        IN  /\ block.startLine >= 0 =>
                  /\ block.endLine < t
                  /\ \A k \in (block.endLine + 1)..(t - 1) :
                        \/ Trim(LineAt(lines, k)) = <<>>
                        \/ annotationPattern(Trim(LineAt(lines, k)))
                        \/ ContinuesAnnotation(block.endLine + 1, k)
            /\ \A k \in 0..(t - 1) :
                  (LineAt(lines, k) = SemicolonLine /\ ~ContinuesAnnotation(0, k)) =>
                      /\ block.startLine >= 0 => block.endLine > k
                      /\ (\A n \in (k + 1)..(t - 1) :
                              ~EndsWith(Trim(LineAt(lines, n)), CommentClose)) =>
                            /\ RecoveredComment = <<>>
                            /\ ~textOutput[1].hasComment

\* C25 witness: the comment "/** c */" is separated from the field by a line
\* holding only ';', and the field is reported without a comment.
C25_Witness ==
    /\ textOutput # None
    /\ textOutput[1].kind = "field"
    /\ textInput.lines = <<ClassLine, <<"/", "*", "*", " ", "c", " ", "*", "/">>, SemicolonLine, <<"i", "n", "t", " ", "f", ";">>>>
    /\ textInput.startLine = 3
    /\ RecoveredComment = <<>>
    /\ ~textOutput[1].hasComment

\* A comment is returned across an annotation whose arguments span two lines.
C25_WitnessAnnotation ==
    /\ textOutput # None
    /\ textInput.lines = <<<<"/", "*", "*", " ", "c", " ", "*", "/">>, <<"@", "B", "(", "1", ",">>, <<"2", ")">>, ClassLine>>
    /\ textInput.startLine = 3
    /\ RecoveredBlock = [startLine |-> 0, endLine |-> 0]
    /\ ContinuesAnnotation(1, 2)
    /\ ~annotationPattern(LineAt(textInput.lines, 2))

\* C26: a returned comment block has no close marker on any line other than
\* its last line.
C26_SingleBlock ==
    (textOutput # None /\ RecoveredBlock.startLine >= 0) =>
        \A n \in RecoveredBlock.startLine..(RecoveredBlock.endLine - 1) :
            ~Contains(LineAt(textInput.lines, n), CommentClose)


----------------------------------------------------------------------------
(* JavaDocParser.flattenSymbols over nested symbol trees *)

\* The trees of the model: at most MaxFan children under a container, and
\* paths of at most MaxDepth nodes from a root.  A DocumentSymbol has a non-empty name (the editor rejects a symbol
\* without one) and any kind; a node of any kind may have children.
MaxFan == 2
MaxDepth == 3

SeqUpTo(S, n) == UNION {[1..k -> S] : k \in 0..n}

Node(name, kind, children) == Symbol(name, kind, 0, 0, 0, children)

InnerLeaves ==
    { Node(<<"m">>, "Method", <<>>),
      Node(<<"f">>, "Field", <<>>),
      Node(<<"E">>, "EnumMember", <<>>),
      Node(<<"p">>, "Property", <<>>) }

MiddleNodes ==
    InnerLeaves
        \cup {Node(<<"I">>, "Interface", children) : children \in SeqUpTo(InnerLeaves, MaxFan)}
        \cup { Node(<<"N">>, "Module", <<Node(<<"m">>, "Method", <<>>)>>),
               Node(<<"q">>, "Function", <<Node(<<"f">>, "Field", <<>>)>>) }

TopNodes ==
    {Node(<<"C">>, "Class", children) : children \in SeqUpTo(MiddleNodes, MaxFan)}
        \cup { Node(<<"g">>, "Constant", <<>>),
               Node(<<"k">>, "Constructor", <<>>),
               Node(<<"P">>, "Package",
                    <<Node(<<"D">>, "Enum", <<Node(<<"E">>, "EnumMember", <<>>)>>)>>) }

SecondRoots ==
    { Node(<<"g">>, "Constant", <<>>),
      Node(<<"D">>, "Enum", <<Node(<<"E">>, "EnumMember", <<>>),
                              Node(<<"J">>, "Class", <<Node(<<"m">>, "Method", <<>>)>>)>>) }

NestedTrees ==
    {<<>>} \cup {<<top>> : top \in TopNodes}
        \cup {<<top, second>> : top \in TopNodes, second \in SecondRoots}

InitFlatten ==
    /\ ResolverInit
    /\ LocatorIdle
    /\ SidebarIdle
    /\ \E roots \in NestedTrees : textInput = [roots |-> roots]
    /\ textOutput = None

\* parse(): const flattenedSymbols = this.flattenSymbols(symbols, "")
FlattenTree ==
    /\ textOutput = None
    /\ textOutput' = Some(flattenSymbols(textInput.roots, <<>>))
    /\ UNCHANGED textInput

NextFlatten == FlattenTree /\ UNCHANGED <<resolverVars, locatorVars, sidebarVars>>

SpecFlatten == InitFlatten /\ [][NextFlatten]_vars

\* A node of the tree is named by the child indices on the way to it.
TreePaths == UNION {[1..d -> 1..MaxFan] : d \in 1..MaxDepth}

RECURSIVE InTree(_, _)
InTree(list, path) ==
    /\ path[1] <= Len(list)
    /\ Len(path) = 1 \/ InTree(list[path[1]].children, Tail(path))

RECURSIVE NodeAt(_, _)
NodeAt(list, path) ==
    IF Len(path) = 1 THEN list[path[1]]
    ELSE NodeAt(list[path[1]].children, Tail(path))

\* The names of the first n ancestors on the path, joined with dots.
RECURSIVE AncestorNames(_, _, _)
AncestorNames(list, path, n) ==
    IF n = 0 THEN <<>>
    ELSE IF n = 1 THEN NodeAt(list, SubSeq(path, 1, 1)).name
    ELSE AncestorNames(list, path, n - 1) \o <<".">> \o NodeAt(list, SubSeq(path, 1, n)).name

MemberKinds == METHOD_KINDS \cup FIELD_KINDS \cup {"EnumMember"}

\* The member nodes all of whose ancestors are containers.
EmittedPaths(list) ==
    {path \in TreePaths :
        /\ InTree(list, path)
        /\ NodeAt(list, path).kind \in MemberKinds
        /\ \A n \in 1..(Len(path) - 1) :
              NodeAt(list, SubSeq(path, 1, n)).kind \in CLASS_LIKE_KINDS}

\* p comes before q in the depth-first traversal.
VisitedBefore(p, q) ==
    \/ Len(p) < Len(q) /\ SubSeq(q, 1, Len(p)) = p
    \/ \E n \in 1..Len(p) :
          /\ n <= Len(q)
          /\ SubSeq(p, 1, n - 1) = SubSeq(q, 1, n - 1)
          /\ p[n] < q[n]

\* C27: the list flattenSymbols returns holds, in depth-first order, one record
\* for every method, field and enum-constant node all of whose ancestors are
\* containers and no other record; the record is tagged with the names of the
\* ancestors joined with dots, outermost first, or with "Unknown" for a node
\* at the root; no record is a container.
C27_FlattenContainersOnly ==
    textOutput # None =>
        LET roots == textInput.roots
            flattened == textOutput[1]
            emitted == EmittedPaths(roots)
            Position(path) == Cardinality({q \in emitted : VisitedBefore(q, path)}) + 1
        IN  /\ Len(flattened) = Cardinality(emitted)
            /\ \A path \in emitted :
                  /\ Position(path) <= Len(flattened)
                  /\ flattened[Position(path)].symbol = NodeAt(roots, path)
                  /\ flattened[Position(path)].belongsTo =
                        IF Len(path) = 1 THEN <<"U", "n", "k", "n", "o", "w", "n">>
                        ELSE AncestorNames(roots, path, Len(path) - 1)
            /\ \A i \in 1..Len(flattened) : ~isClassLikeSymbol(flattened[i].symbol)

\* C27 witness: class C holds the interface I with the members f and m and a
\* module N with a method; a constant stands beside C.  The members of I are
\* tagged "C.I", the method under the module is not emitted, the constant is
\* tagged "Unknown".
C27_Witness ==
    /\ textOutput # None
    /\ textInput.roots =
          <<Node(<<"C">>, "Class",
                 <<Node(<<"I">>, "Interface",
                        <<Node(<<"f">>, "Field", <<>>), Node(<<"m">>, "Method", <<>>)>>),
                   Node(<<"N">>, "Module", <<Node(<<"m">>, "Method", <<>>)>>)>>),
            Node(<<"g">>, "Constant", <<>>)>>
    /\ textOutput[1] =
          <<[symbol |-> Node(<<"f">>, "Field", <<>>), belongsTo |-> <<"C", ".", "I">>],
            [symbol |-> Node(<<"m">>, "Method", <<>>), belongsTo |-> <<"C", ".", "I">>],
            [symbol |-> Node(<<"g">>, "Constant", <<>>),
             belongsTo |-> <<"U", "n", "k", "n", "o", "w", "n">>]>>


----------------------------------------------------------------------------
(* JavaDocParser.extractFullSignature over texts of many lines *)

\* The texts of the model: at most MaxHeadLines lines of a declaration, then
\* up to MaxFill parameter lines, then nothing or a closing line.
MaxHeadLines == 2
MaxFill == 16

HeadLines ==
    { <<"v", "o", "i", "d", " ", "m", "(">>,
      <<"i", "n", "t", " ", "x", ")">>,
      <<"f", "(", "g", "(", "1", ")", ",">>,
      <<"h", "(", ")", ")">>,
      <<")", " ", "(">>,
      <<>>,
      <<" ", "a", " ", "\t", " ", "b", " ">> }

FillLine == <<" ", "y", ",">>
ClosingLine == <<")", " ", "{">>

RECURSIVE Repeat(_, _)
Repeat(line, n) == IF n = 0 THEN <<>> ELSE <<line>> \o Repeat(line, n - 1)

SignatureDocs ==
    {head \o Repeat(FillLine, n) \o tail :
        head \in UNION {[1..k -> HeadLines] : k \in 1..MaxHeadLines},
        n \in 0..MaxFill,
        tail \in {<<>>, <<ClosingLine>>}}

InitFullSignature ==
    /\ ResolverInit
    /\ LocatorIdle
    /\ SidebarIdle
    /\ \E lines \in SignatureDocs : \E startLine \in 0..MaxHeadLines :
          textInput = [lines |-> lines, startLine |-> startLine]
    /\ textOutput = None

\* parseMethod: const fullSignature = this.extractFullSignature(lines, startLine)
ExtractFullSignature ==
    /\ textOutput = None
    /\ textOutput' = Some(extractFullSignature(textInput.lines, textInput.startLine))
    /\ UNCHANGED textInput

NextFullSignature ==
    ExtractFullSignature /\ UNCHANGED <<resolverVars, locatorVars, sidebarVars>>

SpecFullSignature == InitFullSignature /\ [][NextFullSignature]_vars

\* The positions of text at which a ')' brings the depth back to zero after
\* a '(' .
BalancedCloses(text) ==
    {i \in 0..(Len(text) - 1) :
        /\ CharAt(text, i) = ")"
        /\ CountOf(text, "(", 0, i) > 0
        /\ CountOf(text, "(", 0, i) = CountOf(text, ")", 0, i)}

\* The lines from..(to - 1) of the input, each followed by a blank.
RECURSIVE ReadLines(_, _)
ReadLines(from, to) ==
    IF from >= to \/ from >= Len(textInput.lines) THEN <<>>
    ELSE textInput.lines[from + 1] \o <<" ">> \o ReadLines(from + 1, to)

\* C29: the result is whitespace-normalized (no tab, no two blanks in a row,
\* no blank at either end).  When the at most 15 lines from the start line
\* hold a ')' that brings the depth back to zero after a '(', the result is
\* the normalized text from the start of the start line up to and including
\* the first such ')': it ends in that ')' and holds no earlier one.
\* Otherwise the result is the normalized text of those at most 15 lines,
\* whatever the lines below them hold.
C29_SignatureUpToClosingParen ==
    textOutput # None =>
        LET startLine == textInput.startLine
            result == textOutput[1]
            read == ReadLines(startLine, startLine + 15)
        IN  /\ \A i \in 1..Len(result) :
                  /\ result[i] \in WhiteSpace => result[i] = " "
                  /\ result[i] = " " => (i > 1 /\ i < Len(result) /\ result[i + 1] # " ")
            /\ BalancedCloses(read) # {} =>
                  /\ result = NormalizeSpaces(Slice(read, 0, Minimum(BalancedCloses(read)) + 1))
                  /\ BalancedCloses(result) = {Len(result) - 1}
            /\ BalancedCloses(read) = {} =>
                  /\ result = NormalizeSpaces(read)
                  /\ BalancedCloses(result) = {}

\* C29 witness: the argument list opened on the start line is closed on the
\* seventeenth line; fifteen lines are read and the result ends with the
\* fourteenth parameter line.
C29_Witness ==
    /\ textOutput # None
    /\ textInput.lines = <<<<"v", "o", "i", "d", " ", "m", "(">>>> \o Repeat(FillLine, 16) \o <<ClosingLine>>
    /\ textInput.startLine = 0
    /\ BalancedCloses(textOutput[1]) = {}
    /\ textOutput[1] = NormalizeSpaces(ReadLines(0, 15))
    /\ Len(textOutput[1]) = 7 + 14 * 3
    /\ EndsWith(textOutput[1], <<",", " ", "y", ",">>)

\* A signature over two lines with nested parentheses, followed by more text.
C29_WitnessNested ==
    /\ textOutput # None
    /\ textInput.lines = <<<<"f", "(", "g", "(", "1", ")", ",">>, <<"h", "(", ")", ")">>, FillLine>>
    /\ textInput.startLine = 0
    /\ textOutput[1] = <<"f", "(", "g", "(", "1", ")", ",", " ", "h", "(", ")", ")">>


----------------------------------------------------------------------------
(* JavaDocParser.extractPrimaryTypeInfoFromText and parseLineForStructure *)

\* The for loop of parseLineForStructure from index i on; s holds its locals.
RECURSIVE ScanFrom(_, _, _)
ScanFrom(line, i, s) ==
    IF i >= Len(line) THEN s
    ELSE LET ch == CharAt(line, i)
             next == IF i + 1 < Len(line) THEN CharAt(line, i + 1) ELSE ""
         IN  IF s.inBlockComment
             THEN IF ch = "*" /\ next = "/"
                  THEN ScanFrom(line, i + 2, [s EXCEPT !.inBlockComment = FALSE])
                  ELSE ScanFrom(line, i + 1, s)
             ELSE IF s.inString
             THEN IF s.escaped THEN ScanFrom(line, i + 1, [s EXCEPT !.escaped = FALSE])
                  ELSE IF ch = "\\" THEN ScanFrom(line, i + 1, [s EXCEPT !.escaped = TRUE])
                  ELSE IF ch = "\"" THEN ScanFrom(line, i + 1, [s EXCEPT !.inString = FALSE])
                  ELSE ScanFrom(line, i + 1, s)
             ELSE IF s.inChar
             THEN IF s.escaped THEN ScanFrom(line, i + 1, [s EXCEPT !.escaped = FALSE])
                  ELSE IF ch = "\\" THEN ScanFrom(line, i + 1, [s EXCEPT !.escaped = TRUE])
                  ELSE IF ch = "'" THEN ScanFrom(line, i + 1, [s EXCEPT !.inChar = FALSE])
                  ELSE ScanFrom(line, i + 1, s)
             ELSE IF ch = "/" /\ next = "/" THEN s
             ELSE IF ch = "/" /\ next = "*"
             THEN ScanFrom(line, i + 2, [s EXCEPT !.inBlockComment = TRUE])
             ELSE IF ch = "\"" THEN ScanFrom(line, i + 1, [s EXCEPT !.inString = TRUE])
             ELSE IF ch = "'" THEN ScanFrom(line, i + 1, [s EXCEPT !.inChar = TRUE])
             ELSE ScanFrom(line, i + 1,
                           [s EXCEPT !.openBraces = IF ch = "{" THEN @ + 1 ELSE @,
                                     !.closeBraces = IF ch = "}" THEN @ + 1 ELSE @,
                                     !.code = Append(@, ch)])

ScanLocals(state) ==
    [code |-> <<>>, openBraces |-> 0, closeBraces |-> 0,
     inBlockComment |-> state.inBlockComment, inString |-> state.inString,
     inChar |-> state.inChar, escaped |-> FALSE]

ScanResult(s) ==
    [code |-> s.code, openBraces |-> s.openBraces, closeBraces |-> s.closeBraces,
     state |-> [inBlockComment |-> s.inBlockComment, inString |-> s.inString,
                inChar |-> s.inChar]]

OutsideState == [inBlockComment |-> FALSE, inString |-> FALSE, inChar |-> FALSE]

\* A variant that starts every line outside comments and literals.
parseLineForStructureFreshState(line, state) ==
    ScanResult(ScanFrom(line, 0, ScanLocals(OutsideState)))

parseLineForStructure(line, state) == ScanResult(ScanFrom(line, 0, ScanLocals(state)))

\* topLevelTypePattern.exec(code)?.[1] for code without '@', '$' and modifier
\* words: white space, a type keyword, white space, and the longest name.
TypeKeywords == {<<"c", "l", "a", "s", "s">>, <<"i", "n", "t", "e", "r", "f", "a", "c", "e">>, <<"e", "n", "u", "m">>, <<"r", "e", "c", "o", "r", "d">>}

topLevelTypePattern(code) ==
    LET at == SkipWhile(code, 0, WhiteSpace)
        keywords == {k \in TypeKeywords : Slice(code, at, at + Len(k)) = k}
    IN  IF keywords = {} THEN None
        ELSE LET afterKeyword == at + Len(CHOOSE k \in keywords : TRUE)
                 nameStart == SkipWhile(code, afterKeyword, WhiteSpace)
                 nameEnd == SkipWhile(code, nameStart, IdentifierPart)
             IN  IF /\ nameStart > afterKeyword
                    /\ nameStart < Len(code)
                    /\ CharAt(code, nameStart) \in IdentifierStart
                 THEN Some(Slice(code, nameStart, nameEnd))
                 ELSE None

\* The locals of extractPrimaryTypeInfoFromText before the first line; parsed
\* is the result of the last call of parseLineForStructure.
ScanStart ==
    [i |-> 0, braceDepth |-> 0, state |-> OutsideState, first |-> None,
     preferred |-> None, parsed |-> None, result |-> None]

Scan == IF textOutput = None THEN ScanStart ELSE textOutput[1]

\* One pass of the for loop; the break leaves i at the line of the match.
ScanLine ==
    /\ Scan.result = None
    /\ Scan.preferred = None
    /\ Scan.i < Len(textInput.lines)
    /\ LET parsed == parseLineForStructure(LineAt(textInput.lines, Scan.i), Scan.state)
           match == IF Scan.braceDepth = 0 THEN topLevelTypePattern(parsed.code) ELSE None
           found == IF match # None /\ Len(match[1]) > 0
                    THEN Some([name |-> match[1], line |-> Scan.i]) ELSE None
           first == IF found # None /\ Scan.first = None THEN found ELSE Scan.first
       IN  textOutput' =
              Some(IF found # None /\ found[1].name = textInput.baseName
                   THEN [Scan EXCEPT !.state = parsed.state, !.parsed = Some(parsed),
                                     !.first = first, !.preferred = found]
                   ELSE [Scan EXCEPT !.state = parsed.state, !.parsed = Some(parsed),
                                     !.first = first,
                                     !.braceDepth = @ + parsed.openBraces - parsed.closeBraces,
                                     !.i = @ + 1])
    /\ UNCHANGED textInput

\* The statements after the loop.
ChooseType ==
    /\ Scan.result = None
    /\ Scan.preferred # None \/ Scan.i >= Len(textInput.lines)
    /\ LET chosen == IF Scan.preferred # None THEN Scan.preferred ELSE Scan.first
           className == IF chosen # None THEN chosen[1].name ELSE <<"U", "n", "k", "n", "o", "w", "n">>
           classLine == IF chosen # None THEN chosen[1].line ELSE 0
       IN  textOutput' =
              Some([Scan EXCEPT !.result =
                       Some([className |-> className, classLine |-> classLine,
                             classComment |-> extractComment(JoinLines(textInput.lines),
                                                             classLine)])])
    /\ UNCHANGED textInput

(* The texts of the model: at most MaxScanLines lines.                       *)
MaxScanLines == 3

ScanLines ==
    { <<"{">>,
      <<"}">>,
      <<"a", "{", " ", "/", "/", " ", "}">>,
      <<"/", "*", " ", "{">>,
      <<"}", " ", "*", "/", " ", "{">>,
      <<"\"", "{">>,
      <<"\\", "\"", " ", "}", "\"", "{">>,
      <<"\"", "\\", "\\", "\"", "{">>,
      <<"'", "{", "'", "}">>,
      <<"'", "\\", "'", "'", "{">>,
      <<"c", "l", "a", "s", "s", " ", "C", "{">>,
      <<"e", "n", "u", "m", " ", "D", "{", "}">>,
      <<"\"", "\\">> }

InitStructure ==
    /\ ResolverInit
    /\ LocatorIdle
    /\ SidebarIdle
    /\ \E lines \in UNION {[1..n -> ScanLines] : n \in 1..MaxScanLines} :
       \E baseName \in {<<"C">>, <<"D">>} :
          textInput = [lines |-> lines, baseName |-> baseName]
    /\ textOutput = None

NextStructure ==
    /\ ScanLine \/ ChooseType
    /\ UNCHANGED <<resolverVars, locatorVars, sidebarVars>>

SpecStructure == InitStructure /\ [][NextStructure]_vars


\* The scanner read as a tokenizer: from index i of the line in the given
\* mode ("code", "block", "string" or "char"), the code characters of the
\* rest of the line and the mode at its end.  A literal ends at the first
\* quote of its kind that follows an even number of backslashes.
RECURSIVE Tokens(_, _, _)
Tokens(line, i, mode) ==
    IF i >= Len(line) THEN [code |-> <<>>, mode |-> mode]
    ELSE IF mode = "block"
    THEN LET ends == {p \in i..(Len(line) - 2) :
                         CharAt(line, p) = "*" /\ CharAt(line, p + 1) = "/"}
         IN  IF ends = {} THEN [code |-> <<>>, mode |-> "block"]
             ELSE Tokens(line, Minimum(ends) + 2, "code")
    ELSE IF mode \in {"string", "char"}
    THEN LET quote == IF mode = "string" THEN "\"" ELSE "'"
             BackslashesBefore(k) ==
                 k - 1 - Maximum({i - 1} \cup {j \in i..(k - 1) : CharAt(line, j) # "\\"})
             ends == {k \in i..(Len(line) - 1) :
                         CharAt(line, k) = quote /\ BackslashesBefore(k) % 2 = 0}
         IN  IF ends = {} THEN [code |-> <<>>, mode |-> mode]
             ELSE Tokens(line, Minimum(ends) + 1, "code")
    ELSE LET marks == {p \in i..(Len(line) - 1) :
                          \/ CharAt(line, p) \in {"\"", "'"}
                          \/ /\ CharAt(line, p) = "/"
                             /\ p + 1 < Len(line)
                             /\ CharAt(line, p + 1) \in {"/", "*"}}
         IN  IF marks = {} THEN [code |-> SliceFrom(line, i), mode |-> "code"]
             ELSE LET p == Minimum(marks)
                      rest == IF CharAt(line, p) = "\"" THEN Tokens(line, p + 1, "string")
                              ELSE IF CharAt(line, p) = "'" THEN Tokens(line, p + 1, "char")
                              ELSE IF CharAt(line, p + 1) = "/"
                              THEN [code |-> <<>>, mode |-> "code"]
                              ELSE Tokens(line, p + 2, "block")
                  IN  [code |-> Slice(line, i, p) \o rest.code, mode |-> rest.mode]

FlagsOf(mode) ==
    [inBlockComment |-> mode = "block", inString |-> mode = "string",
     inChar |-> mode = "char"]

\* The mode at the end of the first n lines of the input.
RECURSIVE ModeAfter(_)
ModeAfter(n) ==
    IF n = 0 THEN "code"
    ELSE Tokens(textInput.lines[n], 0, ModeAfter(n - 1)).mode

\* The row of the line the loop scanned last.
LastScanned == IF Scan.preferred # None THEN Scan.i ELSE Scan.i - 1

\* The carried flags before and after the character at index k of the line
\* scanned last.
FlagsBefore(k) ==
    parseLineForStructure(Slice(LineAt(textInput.lines, LastScanned), 0, k),
                          FlagsOf(ModeAfter(LastScanned))).state

\* The quote at index k stands inside a literal of its kind.
QuoteInsideLiteral(k) ==
    LET line == LineAt(textInput.lines, LastScanned)
    IN  \/ CharAt(line, k) = "\"" /\ FlagsBefore(k).inString
        \/ CharAt(line, k) = "'" /\ FlagsBefore(k).inChar

\* The number of backslashes that stand directly before index k.
BackslashRun(line, k) ==
    k - 1 - Maximum({-1} \cup {j \in 0..(k - 1) : CharAt(line, j) # "\\"})

\* C30: for the line scanned last, begun in the state carried from the lines
\* above it: the code projection holds exactly the characters outside block
\* comments, line comments and literals, without their delimiters; the brace
\* counts are the numbers of '{' and '}' among them; the state handed to the
\* next line is the mode at the end of the line, so at most one flag is set,
\* and a line comment leaves it as it was before the comment.  A quote inside
\* a literal of its kind ends the literal exactly when an even number of
\* backslashes stands directly before it: a quote after an escaping backslash
\* does not end it, a quote after an escaped backslash does.
C30_ScannerProjection ==
    (textOutput # None /\ Scan.parsed # None) =>
        LET line == LineAt(textInput.lines, LastScanned)
            parsed == Scan.parsed[1]
            tokens == Tokens(line, 0, ModeAfter(LastScanned))
        IN  /\ parsed.code = tokens.code
            /\ parsed.openBraces = CountOf(tokens.code, "{", 0, Len(tokens.code) - 1)
            /\ parsed.closeBraces = CountOf(tokens.code, "}", 0, Len(tokens.code) - 1)
            /\ parsed.state = FlagsOf(tokens.mode)
            /\ Scan.state = parsed.state
            /\ Cardinality({flag \in {"inBlockComment", "inString", "inChar"} :
                               parsed.state[flag]}) <= 1
            /\ \A k \in 0..(Len(line) - 1) :
                  QuoteInsideLiteral(k) =>
                      (FlagsBefore(k + 1) = FlagsBefore(k) <=> BackslashRun(line, k) % 2 = 1)

\* C30 as stated: a quote inside a literal of its kind that stands directly
\* after a backslash does not end the literal.
C30_QuoteAfterBackslash ==
    (textOutput # None /\ Scan.parsed # None) =>
        LET line == LineAt(textInput.lines, LastScanned)
        IN  \A k \in 1..(Len(line) - 1) :
                (QuoteInsideLiteral(k) /\ CharAt(line, k - 1) = "\\") =>
                    FlagsBefore(k + 1) = FlagsBefore(k)

\* C30 witness: the line "\\"{ (a literal holding one escaped backslash, then
\* a brace) is scanned from outside; the second quote ends the literal and the
\* brace is counted.
C30_Witness ==
    /\ textOutput # None
    /\ Scan.parsed # None
    /\ LastScanned = 0
    /\ LineAt(textInput.lines, 0) = <<"\"", "\\", "\\", "\"", "{">>
    /\ QuoteInsideLiteral(3)
    /\ Scan.parsed[1].code = <<"{">>
    /\ Scan.parsed[1].openBraces = 1
    /\ Scan.state = OutsideState

\* A string opened on the first line is carried into the second, where an
\* escaped quote does not end it and the next quote does.
C30_WitnessCarried ==
    /\ textOutput # None
    /\ Scan.parsed # None
    /\ LastScanned = 1
    /\ SubSeq(textInput.lines, 1, 2) = <<<<"\"", "{">>, <<"\\", "\"", " ", "}", "\"", "{">>>>
    /\ Scan.parsed[1].code = <<"{">>
    /\ Scan.parsed[1].openBraces = 1
    /\ Scan.parsed[1].closeBraces = 0
    /\ Scan.state = OutsideState
    /\ Scan.braceDepth = 1

\* A line comment in code ends the code of its line and leaves the carried
\* state as it was.
C30_WitnessLineComment ==
    /\ textOutput # None
    /\ Scan.parsed # None
    /\ LineAt(textInput.lines, LastScanned) = <<"a", "{", " ", "/", "/", " ", "}">>
    /\ ModeAfter(LastScanned) = "code"
    /\ Scan.parsed[1].code = <<"a", "{", " ">>
    /\ Scan.parsed[1].closeBraces = 0
    /\ Scan.state = OutsideState


----------------------------------------------------------------------------
(* JavaDocParser.parse with declarations whose extraction throws *)

\* The members of class C, at most MaxMembers of them: sound members, and
\* members without a range, with or without a selection range.
MaxMembers == 3

FaultyPool ==
    { Symbol(<<"m">>, "Method", 2, 2, 3, <<>>),
      Symbol(<<"f">>, "Field", 1, 1, 1, <<>>),
      Symbol(<<"E">>, "EnumMember", 4, 4, 4, <<>>),
      Symbol(<<"x">>, "Method", -1, -1, -1, <<>>),
      Symbol(<<"w">>, "Constructor", 5, -1, -1, <<>>),
      Symbol(<<"y">>, "Field", -1, -1, -1, <<>>),
      Symbol(<<"v">>, "Field", 6, -1, -1, <<>>),
      Symbol(<<"z">>, "EnumMember", -1, -1, -1, <<>>) }

FaultyTrees ==
    {<<Symbol(<<"C">>, "Class", 0, 0, 9, members)>> :
        members \in {list \in SeqUpTo(FaultyPool, MaxMembers) : Injective(list)}}

GitRecord ==
    [author |-> <<"a">>, lastModifier |-> <<"b">>, lastModifyDate |-> <<"d">>,
     hash |-> <<"h">>]

GitOutcomes ==
    { [throws |-> TRUE, isGitRepository |-> TRUE, info |-> None],
      [throws |-> FALSE, isGitRepository |-> FALSE, info |-> None],
      [throws |-> FALSE, isGitRepository |-> TRUE, info |-> None],
      [throws |-> FALSE, isGitRepository |-> TRUE, info |-> Some(GitRecord)] }

InitFaulty ==
    /\ ResolverInit
    /\ LocatorIdle
    /\ SidebarIdle
    /\ \E symbols \in FaultyTrees : \E git \in GitOutcomes :
          textInput = [symbols |-> symbols, git |-> git]
    /\ textOutput = None

\* parse(): the lists, then `const gitInfo = await this.getGitInfo(...)`.
ParseDocument ==
    /\ textOutput = None
    /\ textOutput' = Some([model |-> parse(JavaA, textInput.symbols),
                           gitInfo |-> getGitInfo(textInput.git)])
    /\ UNCHANGED textInput

NextFaulty == ParseDocument /\ UNCHANGED <<resolverVars, locatorVars, sidebarVars>>

SpecFaulty == InitFaulty /\ [][NextFaulty]_vars

\* The members of the class in the input.
InputMembers == textInput.symbols[1].children

\* Extracting the details of this member throws.
Throws(symbol) ==
    \/ isMethodSymbol(symbol) /\ symbol.startLine < 0
    \/ ~isMethodSymbol(symbol) /\ symbol.startLine < 0 /\ symbol.selectionLine < 0

\* The names in a list of the document model.
NamesIn(list) == {list[i].name : i \in 1..Len(list)}

\* C28: parse returns a document model whatever throws: a member whose
\* extraction throws is in no list, every other method, field and enum
\* constant is in the list of its kind, tagged with its class, and nothing else
\* is in the lists; when the lookup of the revision metadata throws, the
\* metadata is absent and the lists are the same.
C28_OnlyFailingMemberDropped ==
    textOutput # None =>
        LET model == textOutput[1].model
            members == InputMembers
            Kept(Is(_)) == {members[i].name : i \in
                              {n \in 1..Len(members) : Is(members[n]) /\ ~Throws(members[n])}}
        IN  /\ NamesIn(model.methods) = Kept(isMethodSymbol)
            /\ NamesIn(model.fields) = Kept(isFieldSymbol)
            /\ NamesIn(model.enumConstants) = Kept(isEnumMemberSymbol)
            /\ Len(model.methods) + Len(model.fields) + Len(model.enumConstants)
                  = Cardinality({n \in 1..Len(members) : ~Throws(members[n])})
            /\ \A i \in 1..Len(model.methods) : model.methods[i].belongsTo = <<"C">>
            /\ textInput.git.throws => textOutput[1].gitInfo = None
            /\ textOutput[1].gitInfo # None =>
                  /\ ~textInput.git.throws
                  /\ textOutput[1].gitInfo[1].author = <<"a">>

\* C28 witness: the method x has no range, the method m and the field f are
\* sound, the lookup of the revision metadata throws: the model holds m and f
\* and no metadata.
C28_Witness ==
    /\ textOutput # None
    /\ InputMembers = <<Symbol(<<"x">>, "Method", -1, -1, -1, <<>>),
                        Symbol(<<"m">>, "Method", 2, 2, 3, <<>>),
                        Symbol(<<"f">>, "Field", 1, 1, 1, <<>>)>>
    /\ textInput.git.throws
    /\ NamesIn(textOutput[1].model.methods) = {<<"m">>}
    /\ NamesIn(textOutput[1].model.fields) = {<<"f">>}
    /\ textOutput[1].gitInfo = None

====
